---- MODULE Spec2Model ----
(***************************************************************************)
(* Model of the boot-time core of fuzzoz.                                  *)
(*                                                                         *)
(* Part 1, the range-set allocator (src/src/mm/rangeset.rs).  A RangeSet   *)
(* is a fixed array of inclusive ranges plus the number of slots in use.   *)
(* Every operation of the impl block is a pure operator on RangeSet        *)
(* values, computed the way the code computes it; one action per public    *)
(* method applies it to the state and records the call.  The 64-bit word   *)
(* is scaled down to 0..U64Max and the 256-slot array to Capacity slots.   *)
(* Slots at index >= in_use keep whatever an earlier delete left there,    *)
(* exactly as in the array of the code.                                    *)
(*                                                                         *)
(* Part 2, the firmware-table walker (src/src/acpi.rs) and the physical    *)
(* memory cursor it uses (src/src/mm.rs).  Physical memory is a sequence   *)
(* of bytes followed by zeroes; every function of the walker is an         *)
(* operator on that memory which returns its result together with the      *)
(* addresses it read; one action per function applies it once.  The       *)
(* cursor and the restart loops of insert and remove also have state       *)
(* machines of their own, which take one call or one turn at a time.       *)
(*                                                                         *)
(* Part 3, the firmware memory map (src/src/efi.rs): get_memory_map as an  *)
(* operator on what the firmware reports and writes.                       *)
(***************************************************************************)
EXTENDS Integers, Sequences, FiniteSets, TLC

VARIABLES calls, ranges, in_use, pre_ranges, pre_in_use, op, arg, ret,
          mem, fn, fn_arg, fn_ret, reads, walked, scan

rsVars == <<ranges, in_use>>
histVars == <<calls, pre_ranges, pre_in_use, op, arg, ret>>
\* Physical memory and the record of the call made on the walker; walked
\* holds the XSDT entries or the cursor positions the call went through.
acpiVars == <<mem, fn, fn_arg, fn_ret, reads, walked>>
vars == <<calls, ranges, in_use, pre_ranges, pre_in_use, op, arg, ret,
          mem, fn, fn_arg, fn_ret, reads, walked, scan>>

\* Width in bits of the scaled-down machine word (64 in the code).
WordBits == 3
\* u64::MAX of the scaled-down machine word.
U64Max == 2^WordBits - 1
\* Number of slots of the `ranges` array (256 in the code).
Capacity == 3
\* Largest number of calls made on the RangeSet in one behaviour.
MaxCalls == 4
\* Largest number of entries of a RangeSet passed as an argument
\* (`regions` of allocate_prefer, `rs` of subtract).
MaxArgEntries == 1

U64 == 0..U64Max
Slots == 0..(Capacity - 1)

Min(a, b) == IF a <= b THEN a ELSE b
Max(a, b) == IF a >= b THEN a ELSE b

\* Option<T>: None is the empty sequence, Some(v) the one-element sequence.
None == <<>>
Some(v) == <<v>>

Range(s, e) == [start |-> s, end |-> e]
\* Every value of the struct Range, well-formed or not.
AnyRange == [start : U64, end : U64]
\* The ranges a caller passes that satisfy start <= end.
ValidRange == {r \in AnyRange : r.start <= r.end}

\* u64::saturating_add(1), u64::saturating_sub(1)
saturating_add1(x) == IF x = U64Max THEN U64Max ELSE x + 1
saturating_sub1(x) == IF x = 0 THEN 0 ELSE x - 1
\* u64::wrapping_add, u64::wrapping_sub
wrapping_add(x, y) == (x + y) % (U64Max + 1)
wrapping_sub(x, y) == (x - y + (U64Max + 1)) % (U64Max + 1)
\* u64::checked_add
checked_add(x, y) == IF x + y > U64Max THEN None ELSE Some(x + y)

\* The swap at the head of overlaps and contains: lowest bound first.
ordered(a) == IF a.start > a.end THEN Range(a.end, a.start) ELSE a

overlaps(a0, b0) ==
    LET a == ordered(a0)
        b == ordered(b0)
    IN  IF a.start <= b.end /\ b.start <= a.end
        THEN Some(Range(Max(a.start, b.start), Min(a.end, b.end)))
        ELSE None

contains(a0, b0) ==
    LET a == ordered(a0)
        b == ordered(b0)
    IN  a.start >= b.start /\ a.end <= b.end

\* Result<T>: kind is "Ok" or the name of the Error variant; val is the
\* payload of Ok for allocate/allocate_prefer and of Some for sum, else 0.
Ok == [kind |-> "Ok", val |-> 0]
OkVal(v) == [kind |-> "Ok", val |-> v]
Err(e) == [kind |-> e, val |-> 0]

RS(rg, n) == [ranges |-> rg, in_use |-> n]
Out(rs, r) == [rs |-> rs, ret |-> r]

\* RangeSet::new
new == RS([i \in Slots |-> Range(0, 0)], 0)

\* RangeSet::entries as the sequence of in-use entries in index order.
entries(rs) == [i \in 1..rs.in_use |-> rs.ranges[i - 1]]

\* slice::swap
swap(rg, i, j) == [rg EXCEPT ![i] = rg[j], ![j] = rg[i]]

\* delete that drops the last in-use entry whatever idx is, without the swap.
delete_last(rs, idx) ==
    IF idx >= rs.in_use
    THEN Out(rs, Err("InvalidIndex"))
    ELSE Out(RS(rs.ranges, rs.in_use - 1), Ok)

\* RangeSet::delete
delete(rs, idx) ==
    IF idx >= rs.in_use
    THEN Out(rs, Err("InvalidIndex"))
    ELSE Out(RS(swap(rs.ranges, idx, rs.in_use - 1), rs.in_use - 1), Ok)

\* touches without the saturating +1 on the ends: overlap only.
touches_overlap_only(range, ent) == overlaps(range, ent) # None

\* The adjacency-extended overlap test of insert.
touches(range, ent) ==
    overlaps(Range(range.start, saturating_add1(range.end)),
             Range(ent.start, saturating_add1(ent.end))) # None

\* union that keeps the start of the candidate.
union_keeps_start(range, ent) == Range(range.start, Max(range.end, ent.end))

\* The candidate of insert made the combination of itself and ent.
union(range, ent) ==
    Range(Min(range.start, ent.start), Max(range.end, ent.end))

\* The 'try_merges loop of insert: the first entry in index order that
\* overlaps or touches the candidate is unioned into it and deleted, and
\* the scan starts over.
RECURSIVE try_merges(_, _)
try_merges(rs, range) ==
    LET hits == {ii \in 0..(rs.in_use - 1) : touches(range, rs.ranges[ii])}
    IN  IF hits = {}
        THEN [rs |-> rs, range |-> range]
        ELSE LET ii == CHOOSE i \in hits : \A j \in hits : i <= j
             IN  try_merges(delete(rs, ii).rs, union(range, rs.ranges[ii]))

\* insert that tests for a free slot before it merges: a full set refuses
\* every range.
insert_full_refuses(rs, range) ==
    IF range.end < range.start
    THEN Out(rs, Err("InvalidRange"))
    ELSE IF rs.in_use >= Capacity
    THEN Out(rs, Err("OutOfEntries"))
    ELSE LET m == try_merges(rs, range)
         IN  Out(RS([m.rs.ranges EXCEPT ![m.rs.in_use] = m.range],
                    m.rs.in_use + 1), Ok)

\* RangeSet::insert
insert(rs, range) ==
    IF range.end < range.start
    THEN Out(rs, Err("InvalidRange"))
    ELSE LET m == try_merges(rs, range)
         IN  IF m.rs.in_use < Capacity
             THEN Out(RS([m.rs.ranges EXCEPT ![m.rs.in_use] = m.range],
                         m.rs.in_use + 1), Ok)
             ELSE Out(m.rs, Err("OutOfEntries"))

\* The tail entry written by the split branch of remove.  The `ent` of
\* `if let Some(ent) = self.ranges.get_mut(self.in_use)` shadows the entry
\* being split, so `ent.start` reads the start of the unused slot.
split_tail(rs, range) ==
    Range(rs.ranges[rs.in_use].start, saturating_sub1(range.start))

\* The 'try_subtraction loop of remove, with the for loop at index ii.
RECURSIVE try_subtraction(_, _, _)
try_subtraction(rs, range, ii) ==
    IF ii >= rs.in_use
    THEN Out(rs, Ok)
    ELSE LET ent == rs.ranges[ii]
         IN  IF overlaps(range, ent) = None
             THEN try_subtraction(rs, range, ii + 1)
             ELSE IF contains(ent, range)
             THEN try_subtraction(delete(rs, ii).rs, range, 0)
             ELSE IF range.start <= ent.start
             THEN try_subtraction(
                      RS([rs.ranges EXCEPT ![ii].start = saturating_add1(range.end)],
                         rs.in_use), range, ii + 1)
             ELSE IF range.end >= ent.end
             THEN try_subtraction(
                      RS([rs.ranges EXCEPT ![ii].end = saturating_sub1(range.start)],
                         rs.in_use), range, ii + 1)
             ELSE LET shrunk == RS([rs.ranges EXCEPT
                                       ![ii].start = saturating_add1(range.end)],
                                   rs.in_use)
                  IN  IF shrunk.in_use < Capacity
                      THEN try_subtraction(
                               RS([shrunk.ranges EXCEPT
                                      ![shrunk.in_use] = split_tail(shrunk, range)],
                                  shrunk.in_use + 1), range, 0)
                      ELSE Out(shrunk, Err("OutOfEntries"))

\* RangeSet::remove
remove(rs, range) ==
    IF range.end < range.start
    THEN Out(rs, Err("InvalidRange"))
    ELSE try_subtraction(rs, range, 0)

\* RangeSet::subtract: the entries of rs are removed in index order, and
\* the first error ends the loop.
RECURSIVE subtract_from(_, _, _)
subtract_from(self, es, i) ==
    IF i > Len(es)
    THEN Out(self, Ok)
    ELSE LET r == remove(self, es[i])
         IN  IF r.ret.kind # "Ok" THEN r ELSE subtract_from(r.rs, es, i + 1)

subtract(self, rs) == subtract_from(self, entries(rs), 1)

\* The try_fold of sum over the entries es from position i on, in the
\* wrapping arithmetic of a build without overflow checks.  val is the value
\* returned, overflowed tells whether `x.end - x.start` or `acc + ...`
\* overflowed on the way (a panic in a build with overflow checks).
RECURSIVE sum_fold(_, _, _, _)
sum_fold(es, i, acc, overflowed) ==
    IF i > Len(es)
    THEN [val |-> Some(acc), overflowed |-> overflowed]
    ELSE LET x == es[i]
             diff == wrapping_sub(x.end, x.start)
             o1 == overflowed \/ x.end < x.start
             len == checked_add(diff, 1)
         IN  IF len = None
             THEN [val |-> None, overflowed |-> o1]
             ELSE sum_fold(es, i + 1, wrapping_add(acc, len[1]),
                           o1 \/ acc + len[1] > U64Max)

\* RangeSet::sum: the set of results the builds of the code can produce.
sum(rs) ==
    LET f == sum_fold(entries(rs), 1, 0, FALSE)
        v == IF f.val = None THEN [kind |-> "None", val |-> 0]
             ELSE [kind |-> "Some", val |-> f.val[1]]
    IN  IF f.overflowed THEN {v, [kind |-> "Panic", val |-> 0]} ELSE {v}

\* u64::count_ones
RECURSIVE count_ones(_)
count_ones(x) == IF x = 0 THEN 0 ELSE (x % 2) + count_ones(x \div 2)

\* invalid_alignment that refuses zero only.
invalid_alignment_zero_only(align) == align = 0

\* The alignment is zero or no power of 2.
invalid_alignment(align) == count_ones(align) # 1

\* x & alignmask and x & !alignmask, for alignmask = 2^k - 1.
and_mask(x, alignmask) == x % (alignmask + 1)
and_not_mask(x, alignmask) == x - (x % (alignmask + 1))

Allocation(base, end, ptr) == [base |-> base, end |-> end, ptr |-> ptr]

\* overlap_fits without the test that size bytes remain.
overlap_fits_any_size(overlap, align_overlap, size) ==
    /\ align_overlap >= overlap.start
    /\ align_overlap <= overlap.end

\* The test of the inner loop: aligning did not wrap, did not pass the end
\* of the overlap, and the aligned part of the overlap holds size bytes.
overlap_fits(overlap, align_overlap, size) ==
    /\ align_overlap >= overlap.start
    /\ align_overlap <= overlap.end
    /\ (overlap.end - align_overlap) >= (size - 1)

\* The inner loop of allocate_prefer over the preferred regions regs from
\* position j on: the first region whose overlap with ent holds an aligned
\* block of size bytes gives the allocation.
RECURSIVE region_match(_, _, _, _, _)
region_match(ent, regs, j, size, alignmask) ==
    IF j > Len(regs)
    THEN None
    ELSE LET o == overlaps(ent, regs[j])
         IN  IF o = None
             THEN region_match(ent, regs, j + 1, size, alignmask)
             ELSE LET overlap == o[1]
                      align_overlap ==
                          and_not_mask(wrapping_add(overlap.start, alignmask),
                                       alignmask)
                  IN  IF overlap_fits(overlap, align_overlap, size)
                      THEN Some(Allocation(align_overlap,
                                           align_overlap + (size - 1),
                                           align_overlap))
                      ELSE region_match(ent, regs, j + 1, size, alignmask)

\* best_fit that returns the base of the entry without the front padding.
best_fit_unpadded(allocation, base, end, align_fix) ==
    IF allocation = None \/ allocation[1].end - allocation[1].base > end - base
    THEN Some([base |-> base, end |-> end, ptr |-> base])
    ELSE allocation

\* best_fit that also takes a candidate that uses as much memory as the one
\* held: the last of several equal candidates wins.
best_fit_last_wins(allocation, base, end, align_fix) ==
    IF allocation = None \/ allocation[1].end - allocation[1].base >= end - base
    THEN Some(Allocation(base, end, base + align_fix))
    ELSE allocation

\* The candidate of the best-fit rule: taken when there is none yet or when
\* it uses less memory than the one held.
best_fit(allocation, base, end, align_fix) ==
    IF allocation = None \/ allocation[1].end - allocation[1].base > end - base
    THEN Some(Allocation(base, end, base + align_fix))
    ELSE allocation

\* no_room that also refuses the allocation that ends at the entry's end.
no_room_exact_fit(end, ent) == end >= ent.end

\* The entry has not enough room for an allocation that ends at end.
no_room(end, ent) == end > ent.end

\* The 'allocation_search loop of allocate_prefer over the entries es from
\* position i on; allocation is the best candidate so far.
RECURSIVE allocation_search(_, _, _, _, _, _)
allocation_search(es, i, size, align, regions, allocation) ==
    IF i > Len(es)
    THEN allocation
    ELSE LET ent == es[i]
             alignmask == align - 1
             align_fix == and_mask(align - and_mask(ent.start, alignmask),
                                   alignmask)
             base == ent.start
             e1 == checked_add(base, size - 1)
             e2 == IF e1 = None THEN None ELSE checked_add(e1[1], align_fix)
         IN  IF e2 = None \/ no_room(e2[1], ent)
             THEN allocation_search(es, i + 1, size, align, regions, allocation)
             ELSE LET end == e2[1]
                      preferred ==
                          IF regions = None THEN None
                          ELSE region_match(ent, entries(regions[1]), 1, size,
                                            alignmask)
                  IN  IF preferred # None
                      THEN preferred
                      ELSE allocation_search(es, i + 1, size, align, regions,
                               best_fit(allocation, base, end, align_fix))

\* RangeSet::allocate_prefer
allocate_prefer(rs, size, align, regions) ==
    IF size = 0
    THEN Out(rs, Err("ZeroSizeAllocation"))
    ELSE IF invalid_alignment(align)
    THEN Out(rs, Err("InvalidAlignment"))
    ELSE LET allocation ==
                 allocation_search(entries(rs), 1, size, align, regions, None)
         IN  IF allocation = None
             THEN Out(rs, Err("OutOfMemory"))
             ELSE LET a == allocation[1]
                      r == remove(rs, Range(a.base, a.end))
                  IN  IF r.ret.kind # "Ok" THEN r ELSE Out(r.rs, OkVal(a.ptr))

\* RangeSet::allocate
allocate(rs, size, align) == allocate_prefer(rs, size, align, None)

\* The RangeSets a caller can build with at most n inserts into a new set:
\* the values of the `regions` and `rs` arguments.
RECURSIVE BuiltSets(_)
BuiltSets(n) ==
    IF n = 0
    THEN {new}
    ELSE LET s == BuiltSets(n - 1)
         IN  s \cup {insert(x, r).rs : x \in s, r \in ValidRange}

ArgSets == BuiltSets(MaxArgEntries)

(***************************************************************************)
(* State machine: one RangeSet, created by RangeSet::new.                  *)
(***************************************************************************)
NoArg == [range |-> Range(0, 0), idx |-> 0, size |-> 0, align |-> 0,
          regions |-> None, rs |-> new]

Self == RS(ranges, in_use)
Pre == RS(pre_ranges, pre_in_use)

\* The caller is between two calls: the constructor has returned, or the
\* result of the last call has been taken.
Idle == op \in {"new", "idle"}
\* A further call can be made.
CanCall == Idle /\ calls < MaxCalls

\* The call `name(a)` took the set from Self to out.rs and returned out.ret.
Call(name, a, out) ==
    /\ calls' = calls + 1
    /\ ranges' = out.rs.ranges
    /\ in_use' = out.rs.in_use
    /\ pre_ranges' = ranges
    /\ pre_in_use' = in_use
    /\ op' = name
    /\ arg' = a
    /\ ret' = out.ret
    /\ UNCHANGED acpiVars
    /\ UNCHANGED scan

\* Where a call of insert or remove is in its restart loop: the label of
\* the loop, the index ii of its for loop and the range it works with
\* (insert changes its own).
Scan(label, ii, r) == [label |-> label, ii |-> ii, range |-> r]
\* No call is in a loop.
NoScan == Scan("none", 0, Range(0, 0))
\* A call of insert or remove is in its loop.
Running == scan.label # "none"

\* No function of the walker has been called.
NoFnArg == [addr |-> 0, size |-> 0, typ |-> None, table |-> None]

\* The RangeSet right after RangeSet::new, no call made on it.
InitRangeSet ==
    /\ calls = 0
    /\ ranges = new.ranges
    /\ in_use = new.in_use
    /\ pre_ranges = new.ranges
    /\ pre_in_use = new.in_use
    /\ op = "new"
    /\ arg = NoArg
    /\ ret = Ok
    /\ scan = NoScan

\* The walker before any of its functions is called.
InitWalker ==
    /\ fn = "none"
    /\ fn_arg = NoFnArg
    /\ fn_ret = Ok
    /\ reads = {}
    /\ walked = <<>>

Init ==
    /\ InitRangeSet
    /\ InitWalker
    /\ mem = <<>>

Insert ==
    /\ CanCall
    /\ \E r \in AnyRange :
           Call("insert", [NoArg EXCEPT !.range = r], insert(Self, r))

Remove ==
    /\ CanCall
    /\ \E r \in AnyRange :
           Call("remove", [NoArg EXCEPT !.range = r], remove(Self, r))

Delete ==
    /\ CanCall
    /\ \E idx \in 0..Capacity :
           Call("delete", [NoArg EXCEPT !.idx = idx], delete(Self, idx))

Subtract ==
    /\ CanCall
    /\ \E rs \in ArgSets :
           Call("subtract", [NoArg EXCEPT !.rs = rs], subtract(Self, rs))

Sum ==
    /\ CanCall
    /\ \E r \in sum(Self) :
           Call("sum", NoArg, Out(Self, r))

Allocate ==
    /\ CanCall
    /\ \E size \in U64, align \in U64 :
           Call("allocate", [NoArg EXCEPT !.size = size, !.align = align],
                allocate(Self, size, align))

AllocatePrefer ==
    /\ CanCall
    /\ \E size \in U64, align \in U64, rs \in ArgSets :
           Call("allocate_prefer",
                [NoArg EXCEPT !.size = size, !.align = align,
                              !.regions = Some(rs)],
                allocate_prefer(Self, size, align, Some(rs)))

\* The caller takes the result of the call and goes on: the record of the
\* call is dropped, the RangeSet stays as the call left it.
Continue ==
    /\ ~Idle
    /\ ~Running
    /\ op' = "idle"
    /\ arg' = NoArg
    /\ ret' = Ok
    /\ pre_ranges' = ranges
    /\ pre_in_use' = in_use
    /\ scan' = NoScan
    /\ UNCHANGED <<calls, ranges, in_use>>
    /\ UNCHANGED acpiVars

Next ==
    \/ Continue
    \/ Insert
    \/ Remove
    \/ Delete
    \/ Subtract
    \/ Sum
    \/ Allocate
    \/ AllocatePrefer

Spec == Init /\ [][Next]_vars

\* The behaviours whose calls are insert and remove only.
NextInsertRemove ==
    \/ Continue
    \/ Insert
    \/ Remove

SpecInsertRemove == Init /\ [][NextInsertRemove]_vars

\* The behaviours whose calls are insert, remove, allocate and sum only.
NextAllocate ==
    \/ Continue
    \/ Insert
    \/ Remove
    \/ Allocate
    \/ Sum

SpecAllocate == Init /\ [][NextAllocate]_vars

\* The behaviours whose calls are insert, remove and delete only.
NextDelete ==
    \/ Continue
    \/ Insert
    \/ Remove
    \/ Delete

SpecDelete == Init /\ [][NextDelete]_vars

(***************************************************************************)
(* Vocabulary of the properties.                                           *)
(***************************************************************************)
\* The addresses of the inclusive range r (none when r.start > r.end).
Addrs(r) == {x \in U64 : r.start <= x /\ x <= r.end}
\* The addresses covered by the in-use entries of rs.
Covered(rs) == UNION {Addrs(rs.ranges[i]) : i \in 0..(rs.in_use - 1)}
\* The block of size addresses at p.
Block(p, size) == p..(p + size - 1)
IsPowerOfTwo(n) == \E k \in 0..U64Max : n = 2^k
InUse == 0..(in_use - 1)
PreInUse == 0..(pre_in_use - 1)
Returned(name) == op = name
ReturnedOk(name) == op = name /\ ret.kind = "Ok"

\* C1: after any sequence of insert and remove calls, any two distinct
\* in-use entries are neither overlapping nor adjacent:
\* a.end + 1 < b.start or b.end + 1 < a.start.
C1_DisjointNonAdjacent ==
    \A i \in InUse, j \in InUse :
        i # j => \/ ranges[i].end + 1 < ranges[j].start
                 \/ ranges[j].end + 1 < ranges[i].start

\* C2: after any sequence of calls every in-use entry has start <= end.
C2_StartLeEnd ==
    \A i \in InUse : ranges[i].start <= ranges[i].end

\* C3: when remove(r) returns Ok, the addresses covered afterwards are the
\* addresses covered before minus the addresses of r.
C3_RemoveCoverage ==
    ReturnedOk("remove") =>
        Covered(Self) = Covered(Pre) \ Addrs(arg.range)

\* C4: when insert(r) returns Ok, the addresses covered afterwards are the
\* addresses covered before united with the addresses of r, and exactly one
\* entry contains r.
C4_InsertCoverage ==
    ReturnedOk("insert") =>
        /\ Covered(Self) = Covered(Pre) \cup Addrs(arg.range)
        /\ Cardinality({i \in InUse : /\ ranges[i].start <= arg.range.start
                                      /\ arg.range.end <= ranges[i].end}) = 1

\* C4 witness: an insert that returned Ok after merging two entries that the
\* inserted range bridges.
C4_Witness ==
    /\ ReturnedOk("insert")
    /\ pre_in_use = 2
    /\ in_use = 1
    /\ Covered(Pre) # Covered(Self)
    /\ ~(Addrs(arg.range) \subseteq Covered(Pre))

\* The first insert into the empty set gave the one entry r.
AfterFirstInsert(r) == insert(new, r).rs

\* C5: for a <= b < c, inserting [a,b] and [b+1,c] into an empty RangeSet,
\* in either order, yields exactly the one entry [a,c], also when c is
\* U64Max.  The first conjunct is the first insert, the second conjunct the
\* second insert made on the set the first one left.
C5_AdjacentInsertsMerge ==
    (Returned("insert") /\ arg.range \in ValidRange) =>
        /\ Pre = new =>
              /\ ret.kind = "Ok"
              /\ in_use = 1
              /\ ranges[0] = arg.range
        /\ \A first \in ValidRange :
              (/\ Pre = AfterFirstInsert(first)
               /\ \/ arg.range.start = first.end + 1
                  \/ first.start = arg.range.end + 1) =>
                    /\ ret.kind = "Ok"
                    /\ in_use = 1
                    /\ ranges[0] = Range(Min(first.start, arg.range.start),
                                         Max(first.end, arg.range.end))

\* C5 witness: [b+1, U64Max] was inserted into the empty set, then [a,b],
\* and the set holds the one entry [a, U64Max].
C5_Witness ==
    /\ ReturnedOk("insert")
    /\ \E first \in ValidRange :
          /\ Pre = AfterFirstInsert(first)
          /\ first.end = U64Max
          /\ first.start = arg.range.end + 1
    /\ in_use = 1
    /\ ranges[0] = Range(arg.range.start, U64Max)

\* The sum of (end - start + 1) over the entries es from position i on.
RECURSIVE Total(_, _)
Total(es, i) ==
    IF i > Len(es) THEN 0 ELSE (es[i].end - es[i].start + 1) + Total(es, i + 1)

\* C6: sum() returns Some(n), n the sum of (end - start + 1) over the in-use
\* entries, whenever that total fits in the word, and None (never a wrapped
\* value, never a panic) whenever it does not.
C6_SumOrNone ==
    Returned("sum") =>
        LET n == Total(entries(Pre), 1)
        IN  IF n <= U64Max
            THEN ret = [kind |-> "Some", val |-> n]
            ELSE ret = [kind |-> "None", val |-> 0]

ReturnedAlloc == op \in {"allocate", "allocate_prefer"}

\* C7: when allocate or allocate_prefer returns Ok(p), p is a multiple of
\* align, every address of [p, p+size-1] was covered before the call and
\* none of them is covered after it; on the set {[0, size-1]} the call
\* allocate(size, size) returns 0 and leaves the set empty.
C7_AllocatedBlock ==
    (ReturnedAlloc /\ ret.kind = "Ok") =>
        /\ ret.val % arg.align = 0
        /\ Block(ret.val, arg.size) \subseteq Covered(Pre)
        /\ Block(ret.val, arg.size) \cap Covered(Self) = {}
        /\ Block(ret.val, arg.size) # {}

\* The example of C7 on the scaled-down word: {[0,3]}, allocate(4,4).
C7_Example ==
    (/\ Returned("allocate")
     /\ arg.size = 4
     /\ arg.align = 4
     /\ pre_in_use = 1
     /\ pre_ranges[0] = Range(0, 3)) =>
        /\ ret = OkVal(0)
        /\ in_use = 0

C7_Allocate == C7_AllocatedBlock /\ C7_Example

\* C7 witness: a preferred allocation returned an aligned base above the
\* start of the free entry it was carved from.
C7_Witness ==
    /\ ReturnedOk("allocate_prefer")
    /\ arg.align = 2
    /\ arg.size = 2
    /\ ret.val = 2
    /\ pre_in_use = 2
    /\ \E i \in PreInUse : pre_ranges[i] = Range(1, 4)

\* Some in-use entry of rs contains an align-aligned block of size addresses.
HasAlignedBlock(rs, size, align) ==
    \E i \in 0..(rs.in_use - 1), p \in U64 :
        /\ p % align = 0
        /\ Block(p, size) \subseteq Addrs(rs.ranges[i])

\* C8: for size > 0 and align a power of two, allocate(size, align) fails
\* with OutOfMemory if and only if no in-use entry contains an align-aligned
\* block of size consecutive addresses; it always does on an empty set, and
\* the failing call leaves the set unchanged.
C8_OutOfMemoryIff ==
    (Returned("allocate") /\ arg.size > 0 /\ IsPowerOfTwo(arg.align)) =>
        /\ ret.kind = "OutOfMemory" <=> ~HasAlignedBlock(Pre, arg.size, arg.align)
        /\ pre_in_use = 0 => ret.kind = "OutOfMemory"
        /\ ret.kind = "OutOfMemory" => Self = Pre

\* C8 witness: allocate failed with OutOfMemory on a set whose entries cover
\* at least size addresses in one entry, none of them holding an aligned
\* block.
C8_Witness ==
    /\ Returned("allocate")
    /\ ret.kind = "OutOfMemory"
    /\ arg.size = 2
    /\ arg.align = 2
    /\ pre_in_use = 2
    /\ \E i \in PreInUse : pre_ranges[i] = Range(1, 2)

\* The overlap of some free entry of rs with some preferred region of rg
\* holds an align-aligned block of size addresses.
PreferredBlockExists(rs, rg, size, align) ==
    \E i \in 0..(rs.in_use - 1), j \in 0..(rg.in_use - 1), p \in U64 :
        /\ p % align = 0
        /\ Block(p, size) \subseteq Addrs(rs.ranges[i]) \cap Addrs(rg.ranges[j])

\* C9: if preferred regions are supplied and the overlap of some free entry
\* with some preferred region can hold an align-aligned block of size bytes,
\* the block returned lies inside a preferred region.
C9_PreferredFirst ==
    (/\ ReturnedOk("allocate_prefer")
     /\ arg.regions # None
     /\ PreferredBlockExists(Pre, arg.regions[1], arg.size, arg.align)) =>
        \E j \in 0..(arg.regions[1].in_use - 1) :
            Block(ret.val, arg.size) \subseteq Addrs(arg.regions[1].ranges[j])

\* C9 witness: the block came from the preferred region inside the second
\* free entry although the first free entry, outside every preferred region,
\* fits the request exactly.
C9_Witness ==
    /\ ReturnedOk("allocate_prefer")
    /\ arg.size = 1
    /\ arg.align = 1
    /\ pre_in_use = 2
    /\ pre_ranges[0] = Range(0, 0)
    /\ pre_ranges[1] = Range(2, 4)
    /\ arg.regions[1].in_use = 1
    /\ arg.regions[1].ranges[0] = Range(3, 3)
    /\ ret.val = 3

\* C10: allocate and allocate_prefer return ZeroSizeAllocation when size is
\* 0, and InvalidAlignment when size is nonzero and align is zero or not a
\* power of two; in both cases the RangeSet is left unchanged.
C10_ArgumentErrors ==
    ReturnedAlloc =>
        /\ arg.size = 0 =>
              ret.kind = "ZeroSizeAllocation" /\ Self = Pre
        /\ (arg.size # 0 /\ ~IsPowerOfTwo(arg.align)) =>
              ret.kind = "InvalidAlignment" /\ Self = Pre
        /\ ret.kind = "ZeroSizeAllocation" => arg.size = 0
        /\ ret.kind = "InvalidAlignment" => ~IsPowerOfTwo(arg.align)

\* C10 witness: allocate_prefer(1, 3, regions) returned InvalidAlignment on
\* a set with entries.
C10_Witness ==
    /\ Returned("allocate_prefer")
    /\ arg.size = 1
    /\ arg.align = 3
    /\ ret.kind = "InvalidAlignment"
    /\ pre_in_use = 2
    /\ in_use = 2

\* Two entries of rs that are in use share no address.
Disjoint(rs) ==
    \A i \in 0..(rs.in_use - 1), j \in 0..(rs.in_use - 1) :
        i # j => Addrs(rs.ranges[i]) \cap Addrs(rs.ranges[j]) = {}

\* C19: when remove, called directly or by subtract, allocate or
\* allocate_prefer, returns OutOfEntries, the entries of the set are exactly
\* those before the call, and they are still disjoint if they were.
C19_ErrorLeavesSetIntact ==
    (op \in {"remove", "subtract", "allocate", "allocate_prefer"}
         /\ ret.kind = "OutOfEntries")
        => /\ entries(Self) = entries(Pre)
           /\ Disjoint(Pre) => Disjoint(Self)

(***************************************************************************)
(* Part 2: physical memory (src/src/mm.rs) and the firmware-table walker   *)
(* (src/src/acpi.rs).                                                      *)
(*                                                                         *)
(* A physical address is a number in 0..PhysMax: the 64-bit word of the    *)
(* code scaled down to PhysBits bits, so that `checked_add` on an address  *)
(* overflows above PhysMax.  `mem` maps the addresses the firmware wrote   *)
(* to their bytes and every other byte is zero.  The address and length    *)
(* fields of the tables keep their 8 and 4 bytes in memory; the memories   *)
(* drawn below keep their value within the scaled word.                    *)
(***************************************************************************)

\* Width in bits of the scaled-down physical address (64 in the code).
PhysBits == 8
\* The largest physical address, u64::MAX of the scaled-down word.
PhysMax == 2^PhysBits - 1
PhysAddr == 0..PhysMax

\* u8::MAX
U8Max == 2^8 - 1
Byte == 0..U8Max

\* size_of of the packed structures and of u64.
SizeOfRsdp == 20
SizeOfRsdpExtended == 36
SizeOfTable == 36
SizeOfU64 == 8
SizeOfU32 == 4
SizeOfU8 == 1
SizeOfLocalApic == 6
SizeOfLocalX2apic == 14

\* b"RSD PTR ", b"XSDT", b"APIC", b"SRAT"
RSD_PTR == <<82, 83, 68, 32, 80, 84, 82, 32>>
XSDT == <<88, 83, 68, 84>>
APIC == <<65, 80, 73, 67>>
SRAT == <<83, 82, 65, 84>>

\* enum TableType: the variants without data, and Unknown([u8; 4]).
TableType(tag) == [tag |-> tag, sig |-> <<>>]
Unknown(val) == [tag |-> "Unknown", sig |-> val]

\* impl From<[u8; 4]> for TableType
TableType_from_unknown_is_madt(val) ==
    IF val = XSDT THEN TableType("Xsdt")
    ELSE IF val = SRAT THEN TableType("Srat")
    ELSE TableType("Madt")

TableType_from(val) ==
    IF val = XSDT THEN TableType("Xsdt")
    ELSE IF val = APIC THEN TableType("Madt")
    ELSE IF val = SRAT THEN TableType("Srat")
    ELSE Unknown(val)

\* enum Error: the variants that carry a TableType; the others are Err(e).
TableErr(e, typ) == [kind |-> e, typ |-> typ]
\* The call did not return: it reached panic!().
Panic == [kind |-> "Panic", val |-> 0]

\* The result of a function of the walker: what it returned and the set of
\* addresses it read on the way.
Res(r, rd) == [ret |-> r, reads |-> rd]

\* The n addresses from a on.
Span(a, n) == a..(a + n - 1)

\* mm::read_phys::<u8>
read_u8(m, paddr) == IF paddr \in DOMAIN m THEN m[paddr] ELSE 0

\* mm::read_phys::<T> and mm::read_phys_unaligned::<T>, as the size_of::<T>()
\* bytes at paddr.
read_phys(m, paddr, size) == [i \in 1..size |-> read_u8(m, paddr + i - 1)]

\* The value of a little-endian integer field.
RECURSIVE from_le(_)
from_le(bytes) ==
    IF bytes = <<>> THEN 0 ELSE Head(bytes) + (U8Max + 1) * from_le(Tail(bytes))

\* u8::wrapping_add
wrapping_add_u8_saturating(a, b) == Min(a + b, U8Max)

wrapping_add_u8(a, b) == (a + b) % (U8Max + 1)

\* usize::checked_sub and u8::checked_sub
checked_sub_saturating(a, b) == IF a < b THEN Some(0) ELSE Some(a - b)

checked_sub(a, b) == IF a < b THEN None ELSE Some(a - b)

\* One step of the closure of the try_fold of checksum: chk is Ok(acc) with
\* the addresses read so far.
checksum_step(m, addr, offset, chk) ==
    IF addr + offset > PhysMax
    THEN Res(Err("IntegerOverflow"), chk.reads)
    ELSE Res(OkVal(wrapping_add_u8(chk.ret.val, read_u8(m, addr + offset))),
             chk.reads \cup {addr + offset})

\* The try_fold of checksum over the offsets lo..(hi - 1), in order, from
\* the accumulator chk: the steps are taken one after the other and the
\* first Err ends the fold.  The range is folded as its lower half
\* followed by its upper half, which takes the same steps in the same
\* order and keeps the evaluation shallow.
RECURSIVE checksum_fold(_, _, _, _, _)
checksum_fold(m, addr, lo, hi, chk) ==
    IF chk.ret.kind # "Ok" \/ lo >= hi
    THEN chk
    ELSE IF hi - lo = 1
    THEN checksum_step(m, addr, lo, chk)
    ELSE checksum_fold(m, addr, (lo + hi) \div 2, hi,
                       checksum_fold(m, addr, lo, (lo + hi) \div 2, chk))

\* acpi::checksum
checksum(m, addr, size, typ) ==
    LET chk == checksum_fold(m, addr, 0, size, Res(OkVal(0), {}))
    IN  IF chk.ret.kind # "Ok"
        THEN chk
        ELSE IF chk.ret.val = 0
        THEN Res(Ok, chk.reads)
        ELSE Res(TableErr("ChecksumMismatch", typ), chk.reads)

\* struct Rsdp read from its size_of::<Rsdp>() bytes.  rsdt_addr is not
\* used by the code and stays in bytes.
Rsdp(bytes) ==
    [signature |-> SubSeq(bytes, 1, 8),
     checksum |-> bytes[9],
     oem_id |-> SubSeq(bytes, 10, 15),
     revision |-> bytes[16],
     rsdt_addr |-> SubSeq(bytes, 17, 20)]

\* `&rsdp.signature != b"RSD PTR "`
signature_mismatch_first_half(signature) ==
    SubSeq(signature, 1, 4) # SubSeq(RSD_PTR, 1, 4)

signature_mismatch(signature) == signature # RSD_PTR

\* Rsdp::from_addr
Rsdp_from_addr(m, addr) ==
    LET chk == checksum(m, addr, SizeOfRsdp, TableType("Rsdp"))
        rsdp == Rsdp(read_phys(m, addr, SizeOfRsdp))
        rd == chk.reads \cup Span(addr, SizeOfRsdp)
    IN  IF chk.ret # Ok
        THEN chk
        ELSE IF signature_mismatch(rsdp.signature)
        THEN Res(TableErr("SignatureMismatch", TableType("Rsdp")), rd)
        ELSE Res(OkVal(rsdp), rd)

\* struct RsdpExtended read from its size_of::<RsdpExtended>() bytes.
RsdpExtended(bytes) ==
    [base |-> Rsdp(SubSeq(bytes, 1, 20)),
     length |-> from_le(SubSeq(bytes, 21, 24)),
     xsdt_addr |-> from_le(SubSeq(bytes, 25, 32)),
     extended_checksum |-> bytes[33],
     reserved |-> SubSeq(bytes, 34, 36)]

\* `rsdp.revision < 2`
revision_too_old_zero_only(rsdp) == rsdp.revision < 1

revision_too_old(rsdp) == rsdp.revision < 2

\* RsdpExtended::from_addr with the length test ahead of the checksum over
\* the extended structure.
RsdpExtended_from_addr_length_first(m, addr) ==
    LET base == Rsdp_from_addr(m, addr)
        chk == checksum(m, addr, SizeOfRsdpExtended, TableType("RsdpExtended"))
        rsdp == RsdpExtended(read_phys(m, addr, SizeOfRsdpExtended))
        rd == base.reads \cup Span(addr, SizeOfRsdpExtended)
    IN  IF base.ret.kind # "Ok"
        THEN base
        ELSE IF revision_too_old(base.ret.val)
        THEN Res(Err("RevisionTooOld"), base.reads)
        ELSE IF rsdp.length # SizeOfRsdpExtended
        THEN Res(TableErr("LengthMismatch", TableType("RsdpExtended")), rd)
        ELSE IF chk.ret # Ok
        THEN Res(chk.ret, rd \cup chk.reads)
        ELSE Res(OkVal(rsdp), rd \cup chk.reads)

\* RsdpExtended::from_addr
RsdpExtended_from_addr(m, addr) ==
    LET base == Rsdp_from_addr(m, addr)
        chk == checksum(m, addr, SizeOfRsdpExtended, TableType("RsdpExtended"))
        rsdp == RsdpExtended(read_phys(m, addr, SizeOfRsdpExtended))
        rd == base.reads \cup chk.reads \cup Span(addr, SizeOfRsdpExtended)
    IN  IF base.ret.kind # "Ok"
        THEN base
        ELSE IF revision_too_old(base.ret.val)
        THEN Res(Err("RevisionTooOld"), base.reads)
        ELSE IF chk.ret # Ok
        THEN Res(chk.ret, base.reads \cup chk.reads)
        ELSE IF rsdp.length # SizeOfRsdpExtended
        THEN Res(TableErr("LengthMismatch", TableType("RsdpExtended")), rd)
        ELSE Res(OkVal(rsdp), rd)

\* struct Table read from its size_of::<Table>() bytes.  The fields after
\* `length` are not used by the code and stay in bytes.
Table(bytes) ==
    [signature |-> SubSeq(bytes, 1, 4),
     length |-> from_le(SubSeq(bytes, 5, 8)),
     rest |-> SubSeq(bytes, 9, 36)]

\* Table::from_addr: Ok carries (table, typ, payload_addr, payload_size).
Table_from_addr(m, addr) ==
    LET table == Table(read_phys(m, addr, SizeOfTable))
        typ == TableType_from(table.signature)
        chk == checksum(m, addr, table.length, typ)
        rd == Span(addr, SizeOfTable) \cup chk.reads
        payload_size == checked_sub(table.length, SizeOfTable)
    IN  IF chk.ret # Ok
        THEN Res(chk.ret, rd)
        ELSE IF addr + SizeOfTable > PhysMax
        THEN Res(Err("IntegerOverflow"), rd)
        ELSE IF payload_size = None
        THEN Res(TableErr("LengthMismatch", typ), rd)
        ELSE Res(OkVal([table |-> table, typ |-> typ,
                        payload_addr |-> addr + SizeOfTable,
                        payload_size |-> payload_size[1]]), rd)

\* PhysSlice::new: the cursor at addr with size bytes left.
PhysSlice(addr, size) == [addr |-> addr, len |-> size]

\* The outcome of a step of the cursor: whether it returned Ok, the cursor
\* after it, the bytes read, their addresses, and whether the unchecked
\* `+=` on the address overflowed (a panic in a build with overflow checks,
\* a wrapped address in a build without).
Stepped(ok, slice, data, rd, overflowed) ==
    [ok |-> ok, slice |-> slice, data |-> data, reads |-> rd,
     overflowed |-> overflowed]

\* discard that drops all that is left of the slice.
discard_rest(slice, bytes) ==
    IF slice.len >= bytes
    THEN Stepped(TRUE,
                 PhysSlice((slice.addr + slice.len) % (PhysMax + 1), 0),
                 <<>>, {}, slice.addr + slice.len > PhysMax)
    ELSE Stepped(FALSE, slice, <<>>, {}, FALSE)

\* PhysSlice::discard
discard(slice, bytes) ==
    IF slice.len >= bytes
    THEN Stepped(TRUE,
                 PhysSlice((slice.addr + bytes) % (PhysMax + 1),
                           slice.len - bytes),
                 <<>>, {}, slice.addr + bytes > PhysMax)
    ELSE Stepped(FALSE, slice, <<>>, {}, FALSE)

\* consume that asks for more than size_of::<T>() bytes to be left.
consume_needs_more(m, slice, size) ==
    IF slice.len <= size
    THEN Stepped(FALSE, slice, <<>>, {}, FALSE)
    ELSE Stepped(TRUE,
                 PhysSlice((slice.addr + size) % (PhysMax + 1),
                           slice.len - size),
                 read_phys(m, slice.addr, size), Span(slice.addr, size),
                 slice.addr + size > PhysMax)

\* PhysSlice::consume::<T>, with size = size_of::<T>().
consume(m, slice, size) ==
    IF slice.len < size
    THEN Stepped(FALSE, slice, <<>>, {}, FALSE)
    ELSE Stepped(TRUE,
                 PhysSlice((slice.addr + size) % (PhysMax + 1),
                           slice.len - size),
                 read_phys(m, slice.addr, size), Span(slice.addr, size),
                 slice.addr + size > PhysMax)

\* What a parse has done so far: the addresses read, and, once an unchecked
\* addition has overflowed, Some(the addresses read up to there).
Progress(rd, overflow) == [reads |-> rd, overflow |-> overflow]
After(pr, step) ==
    Progress(pr.reads \cup step.reads,
             IF pr.overflow = None /\ step.overflowed
             THEN Some(pr.reads \cup step.reads)
             ELSE pr.overflow)

\* The cursor at a test of `slice.len() > 0`, and whether the build with
\* overflow checks gets there (no unchecked addition has overflowed yet).
Turn(slice, pr) ==
    [addr |-> slice.addr, len |-> slice.len, checked |-> pr.overflow = None]

\* The result of a parse in the build without overflow checks; w is the
\* cursor at each test of the loop condition.
Parsed(r, pr, w) ==
    [ret |-> r, reads |-> pr.reads, overflow |-> pr.overflow, walked |-> w]

\* const E of Madt::from_addr
E == TableErr("LengthMismatch", TableType("Madt"))

\* The `while slice.len() > 0` loop of Madt::from_addr, and the panic!()
\* that follows it.  The result of consume::<LocalApic> and of
\* consume::<LocalX2apic> is bound and dropped: when it is Err the cursor
\* has not moved and the loop goes on.
RECURSIVE Madt_records(_, _, _, _)
Madt_records(m, slice, pr, w) ==
    IF ~(slice.len > 0)
    THEN Parsed(Panic, pr, Append(w, Turn(slice, pr)))
    ELSE LET typ == consume(m, slice, SizeOfU8)
             raw == consume(m, typ.slice, SizeOfU8)
             len == checked_sub(raw.data[1], 2)
             hdr == After(After(pr, typ), raw)
             apic == consume(m, raw.slice, SizeOfLocalApic)
             x2_apic == consume(m, raw.slice, SizeOfLocalX2apic)
             skip == discard(raw.slice, len[1])
             turns == Append(w, Turn(slice, pr))
         IN  IF ~typ.ok
             THEN Parsed(E, pr, turns)
             ELSE IF ~raw.ok
             THEN Parsed(E, After(pr, typ), turns)
             ELSE IF len = None
             THEN Parsed(E, hdr, turns)
             ELSE IF typ.data[1] = 0
             THEN IF len[1] # SizeOfLocalApic
                  THEN Parsed(E, hdr, turns)
                  ELSE Madt_records(m, apic.slice, After(hdr, apic), turns)
             ELSE IF typ.data[1] = 9
             THEN IF len[1] # SizeOfLocalX2apic
                  THEN Parsed(E, hdr, turns)
                  ELSE Madt_records(m, x2_apic.slice, After(hdr, x2_apic),
                                    turns)
             ELSE IF ~skip.ok
                  THEN Parsed(E, hdr, turns)
                  ELSE Madt_records(m, skip.slice, After(hdr, skip), turns)

\* Madt::from_addr in the build without overflow checks.
Madt_parse(m, addr, size) ==
    LET slice == PhysSlice(addr, size)
        local_apic_addr == consume(m, slice, SizeOfU32)
        flags == consume(m, local_apic_addr.slice, SizeOfU32)
        pr == After(After(Progress({}, None), local_apic_addr), flags)
    IN  IF ~local_apic_addr.ok
        THEN Parsed(E, Progress({}, None), <<>>)
        ELSE IF ~flags.ok
        THEN Parsed(E, After(Progress({}, None), local_apic_addr), <<>>)
        ELSE Madt_records(m, flags.slice, pr, <<>>)

\* The cursors of the turns ts as PhysSlice values.
Cursors(ts) == [i \in 1..Len(ts) |-> PhysSlice(ts[i].addr, ts[i].len)]

\* The turns the build with overflow checks gets to.
checked_turn(t) == t.checked

\* The outcomes of a parse over the builds of the code: what the build
\* without overflow checks returns and, when an unchecked addition
\* overflowed, the panic of the build with overflow checks.  Each outcome
\* comes with the addresses read and the cursors of the loop tests made.
Outcomes(p) ==
    {[ret |-> p.ret, reads |-> p.reads, walked |-> Cursors(p.walked)]}
        \cup (IF p.overflow = None THEN {}
               ELSE {[ret |-> Panic, reads |-> p.overflow[1],
                      walked |-> Cursors(SelectSeq(p.walked, checked_turn))]})

\* Madt::from_addr
Madt_from_addr(m, addr, size) == Outcomes(Madt_parse(m, addr, size))

\* One turn of the `for idx in 0..entries` loop of init: the address of the
\* XSDT entry, the table address read from it, the signature at that
\* address, what Table::from_addr returned, the parser the table was passed
\* to ("none" when the match arm is empty or the loop was left before the
\* match) and the payload address and size it was passed with.
Visit(entry_addr, table_addr, header, parser) ==
    [entry_addr |-> entry_addr, table_addr |-> table_addr, header |-> header,
     parser |-> parser,
     data |-> IF parser = "none" THEN 0 ELSE header.val.payload_addr,
     length |-> IF parser = "none" THEN 0 ELSE header.val.payload_size]

\* The result of init in the build without overflow checks.
Walk(r, pr, w) ==
    [ret |-> r, reads |-> pr.reads, overflow |-> pr.overflow, walked |-> w]

\* The `match typ` of init: the parser a validated table is passed to.
parser_of(typ) == IF typ = TableType("Madt") THEN "Madt" ELSE "none"

RECURSIVE init_entries(_, _, _, _, _, _)

\* The `TableType::Madt` arm of the match: init returns the error of
\* Madt::from_addr, or goes on with the next entry.
init_madt(m, xsdt, count, idx, seen, w, madt) ==
    LET parsed == Progress(seen.reads \cup madt.reads,
                           IF madt.overflow = None THEN None
                           ELSE Some(seen.reads \cup madt.overflow[1]))
    IN  IF madt.ret.kind # "Ok"
        THEN Walk(madt.ret, parsed, w)
        ELSE init_entries(m, xsdt, count, idx + 1, parsed, w)

\* The turn of the loop for the entry at entry_addr, once Table::from_addr
\* has returned header for the table address read from the entry.
init_table(m, xsdt, count, idx, pr, w, entry_addr, table_addr, header) ==
    LET seen == Progress(pr.reads \cup Span(entry_addr, SizeOfU64)
                             \cup header.reads, pr.overflow)
        parser == parser_of(header.ret.val.typ)
    IN  IF header.ret.kind # "Ok"
        THEN Walk(header.ret, seen,
                  Append(w, Visit(entry_addr, table_addr, header.ret, "none")))
        ELSE IF parser = "Madt"
        THEN init_madt(m, xsdt, count, idx, seen,
                       Append(w, Visit(entry_addr, table_addr, header.ret,
                                       parser)),
                       Madt_parse(m, header.ret.val.payload_addr,
                                  header.ret.val.payload_size))
        ELSE init_entries(m, xsdt, count, idx + 1, seen,
                          Append(w, Visit(entry_addr, table_addr, header.ret,
                                          parser)))

\* The loop of init over the XSDT entries, from entry idx on.
init_entries(m, xsdt, count, idx, pr, w) ==
    IF idx >= count
    THEN Walk(Ok, pr, w)
    ELSE IF idx * SizeOfU64 > PhysMax \/ idx * SizeOfU64 + xsdt > PhysMax
    THEN Walk(Err("IntegerOverflow"), pr, w)
    ELSE LET entry_addr == idx * SizeOfU64 + xsdt
             table_addr == from_le(read_phys(m, entry_addr, SizeOfU64))
         IN  init_table(m, xsdt, count, idx, pr, w, entry_addr, table_addr,
                        Table_from_addr(m, table_addr))

\* `length % size_of::<u64>() != 0`
xsdt_bad_entries_u32(length) == length % SizeOfU32 # 0

xsdt_bad_entries(length) == length % SizeOfU64 # 0

\* init from the XSDT on: rsdp is what RsdpExtended::from_addr returned
\* (Ok) and table what Table::from_addr returned for its xsdt_addr.
init_xsdt(m, rsdp, table) ==
    LET typ == table.ret.val.typ
        xsdt == table.ret.val.payload_addr
        length == table.ret.val.payload_size
        pr == Progress(rsdp.reads \cup table.reads, None)
    IN  IF table.ret.kind # "Ok"
        THEN Walk(table.ret, pr, <<>>)
        ELSE IF typ # TableType("Xsdt")
        THEN Walk(TableErr("SignatureMismatch", typ), pr, <<>>)
        ELSE IF xsdt_bad_entries(length)
        THEN Walk(Err("XsdtBadEntries"), pr, <<>>)
        ELSE init_entries(m, xsdt, length \div SizeOfU64, 0, pr, <<>>)

\* init from the RSDP on: rsdp is what RsdpExtended::from_addr returned.
init_rsdp(m, rsdp) ==
    IF rsdp.ret.kind # "Ok"
    THEN Walk(rsdp.ret, Progress(rsdp.reads, None), <<>>)
    ELSE init_xsdt(m, rsdp, Table_from_addr(m, rsdp.ret.val.xsdt_addr))

\* acpi::init in the build without overflow checks; acpi_table is what
\* efi::get_acpi_table returned, None or Some(the address of the RSDP).
init_walk(m, acpi_table) ==
    IF acpi_table = None
    THEN Walk(Err("RsdpNotFound"), Progress({}, None), <<>>)
    ELSE init_rsdp(m, RsdpExtended_from_addr(m, acpi_table[1]))

\* The outcomes of a walk over the builds of the code, as for
\* Madt::from_addr.
WalkOutcomes(p) ==
    {[ret |-> p.ret, reads |-> p.reads, walked |-> p.walked]}
        \cup (IF p.overflow = None THEN {}
               ELSE {[ret |-> Panic, reads |-> p.overflow[1],
                      walked |-> p.walked]})

\* acpi::init
init(m, acpi_table) == WalkOutcomes(init_walk(m, acpi_table))

(***************************************************************************)
(* The memories the walker is run on: what the firmware left in physical   *)
(* memory.  The extended RSDP lies at address 0, the XSDT behind it and    *)
(* the tables of the XSDT entries behind the XSDT.                         *)
(***************************************************************************)

\* Largest length of the buffers checksum is run on.
MaxBufLen == 3
\* Largest number of XSDT entries of a memory.
MaxEntries == 2
\* Largest number of records of a MADT payload.
MaxRecords == 2

\* The n bytes of the little-endian integer field of value v.
RECURSIVE to_le(_, _)
to_le(v, n) ==
    IF n = 0 THEN <<>>
    ELSE <<v % (U8Max + 1)>> \o to_le(v \div (U8Max + 1), n - 1)

\* n zero bytes.
Zeroes(n) == [i \in 1..n |-> 0]

RECURSIVE SeqSum(_)
SeqSum(bytes) == IF bytes = <<>> THEN 0 ELSE Head(bytes) + SeqSum(Tail(bytes))

\* bytes with the checksum field at index `at` set so that the first n
\* bytes sum to `off` modulo 256: off = 0 is the checksum the firmware
\* writes, any other value a corrupted one.
Sealed(bytes, at, n, off) ==
    LET others == SeqSum(SubSeq([bytes EXCEPT ![at] = 0], 1, n))
    IN  [bytes EXCEPT ![at] = (off + (U8Max + 1) - (others % (U8Max + 1)))
                                  % (U8Max + 1)]

\* The bytes of an extended RSDP (struct RsdpExtended over struct Rsdp).
RsdpBytes(signature, off, revision, length, xsdt_addr, ext_off) ==
    LET base == Sealed(signature \o <<0>> \o <<79, 69, 77, 73, 68, 32>>
                           \o <<revision>> \o to_le(0, SizeOfU32),
                       9, SizeOfRsdp, off)
    IN  Sealed(base \o to_le(length, SizeOfU32) \o to_le(xsdt_addr, SizeOfU64)
                    \o <<0>> \o Zeroes(3),
               33, SizeOfRsdpExtended, ext_off)

\* The bytes of a table: the header of struct Table with the given
\* signature and length field, followed by the payload; the checksum
\* covers the bytes the length field declares.
TableBytes(signature, length, payload, off) ==
    LET bytes == signature \o to_le(length, SizeOfU32) \o <<1>> \o <<0>>
                     \o <<79, 69, 77, 73, 68, 32>> \o to_le(0, SizeOfU64)
                     \o to_le(1, SizeOfU32) \o to_le(0, SizeOfU32)
                     \o to_le(0, SizeOfU32) \o payload
    IN  Sealed(bytes, 10, Min(length, Len(bytes)), off)

\* A table whose length field is the length of its bytes.
WholeTable(signature, payload, off) ==
    TableBytes(signature, SizeOfTable + Len(payload), payload, off)

\* b"RSD PTR " with its first or its last byte changed.
BadRsdPtr == {[RSD_PTR EXCEPT ![1] = 88], [RSD_PTR EXCEPT ![8] = 0]}
\* b"FACP", a signature TableType::from does not know.
FACP == <<70, 65, 67, 80>>

\* The n bytes of a concatenation of sequences of bytes.
RECURSIVE Concat(_)
Concat(parts) == IF parts = <<>> THEN <<>> ELSE Head(parts) \o Concat(Tail(parts))

\* The memory with the given bytes from address base on.
At(bytes, base) ==
    [a \in base..(base + Len(bytes) - 1) |-> bytes[a - base + 1]]

\* The memory made of an extended RSDP at address 0, an XSDT and the tables
\* behind it; the RSDP points at the XSDT.
Memory(rsdp, xsdt, tables) == At(rsdp \o xsdt \o Concat(tables), 0)

\* The XSDT entries pointing at tables laid out one behind the other from
\* address `at` on.
RECURSIVE EntriesFor(_, _)
EntriesFor(tables, at) ==
    IF tables = <<>> THEN <<>>
    ELSE to_le(at, SizeOfU64) \o EntriesFor(Tail(tables), at + Len(Head(tables)))

\* The extended RSDP the firmware writes, pointing at the XSDT behind it.
GoodRsdp == RsdpBytes(RSD_PTR, 0, 2, SizeOfRsdpExtended, SizeOfRsdpExtended, 0)

\* The XSDT the firmware writes for the tables behind it.
GoodXsdt(tables) ==
    WholeTable(XSDT,
               EntriesFor(tables, SizeOfRsdpExtended + SizeOfTable
                                      + SizeOfU64 * Len(tables)), 0)

\* Memories that differ in the RSDP; the XSDT has no entries.
RsdpMemories ==
    {Memory(RsdpBytes(signature, off, revision, length, SizeOfRsdpExtended,
                      ext_off),
            GoodXsdt(<<>>), <<>>) :
        signature \in {RSD_PTR} \cup BadRsdPtr, off \in {0, 1},
        revision \in 0..3, length \in {SizeOfRsdp, SizeOfRsdpExtended},
        ext_off \in {0, 1}}

\* A table with an unknown signature.
FacpTable == WholeTable(FACP, <<1, 2, 3, 4>>, 0)

\* Memories that differ in the XSDT: its signature, its payload (the first
\* `size` bytes of two entries pointing at the table behind it), its length
\* field and its checksum.
XsdtMemories ==
    {LET at == SizeOfRsdpExtended + SizeOfTable + size
         payload == SubSeq(to_le(at, SizeOfU64) \o to_le(at, SizeOfU64), 1, size)
     IN  Memory(GoodRsdp,
                TableBytes(signature,
                           IF short = 0 THEN SizeOfTable + size
                           ELSE SizeOfTable - short,
                           payload, off),
                <<FacpTable>>) :
        signature \in {XSDT, APIC, FACP}, size \in {0, 4, 8, 12, 13, 16},
        short \in {0, 16, SizeOfTable}, off \in {0, 1}}

\* MADT records: a Local APIC and a Local x2APIC record, records of an
\* unknown type with and without data, one declaring more data than it
\* has, a Local APIC record of the wrong size, and a record whose length
\* is below the size of its header.
MadtRecordKinds ==
    {<<0, 8, 1, 1, 1, 0, 0, 0>>,
     <<9, 16, 0, 0, 1, 0, 0, 0, 1, 0, 0, 0, 1, 0, 0, 0>>,
     <<5, 4, 7, 7>>,
     <<5, 2>>,
     <<5, 9, 7>>,
     <<0, 6, 1, 1, 1, 1>>,
     <<5, 1>>}

\* The sequences of at most n records.
RECURSIVE MadtRecords(_)
MadtRecords(n) ==
    IF n = 0 THEN {<<>>}
    ELSE MadtRecords(n - 1)
             \cup {rs \o r : rs \in MadtRecords(n - 1), r \in MadtRecordKinds}

\* A MADT payload: local APIC address, flags, records.
MadtPayload(records) ==
    to_le(0, SizeOfU32) \o to_le(1, SizeOfU32) \o records

\* Memories that differ in the payload of the one table, a MADT.
MadtMemories ==
    {LET tables == <<WholeTable(APIC, MadtPayload(records), 0)>>
     IN  Memory(GoodRsdp, GoodXsdt(tables), tables) :
        records \in MadtRecords(MaxRecords)}

\* The tables an XSDT entry points at: MADTs, an SRAT, an XSDT, tables of
\* an unknown signature, tables with a wrong checksum, and tables whose
\* length field is below the size of the header.
TableKinds ==
    {WholeTable(APIC, MadtPayload(<<>>), 0),
     WholeTable(APIC, MadtPayload(<<5, 1>>), 0),
     WholeTable(APIC, MadtPayload(<<>>), 1),
     WholeTable(SRAT, Zeroes(12), 0),
     WholeTable(XSDT, <<>>, 0),
     FacpTable,
     WholeTable(FACP, <<1, 2, 3, 4>>, 1),
     TableBytes(FACP, SizeOfRsdp, <<>>, 0),
     TableBytes(APIC, SizeOfRsdp, <<>>, 1)}

\* The sequences of at most n tables.
RECURSIVE TableLists(_)
TableLists(n) ==
    IF n = 0 THEN {<<>>}
    ELSE TableLists(n - 1)
             \cup {Append(ts, tb) : ts \in TableLists(n - 1), tb \in TableKinds}

\* Memories that differ in the tables of the XSDT entries.
TableMemories ==
    {Memory(GoodRsdp, GoodXsdt(tables), tables) :
        tables \in TableLists(MaxEntries)}

Memories == RsdpMemories \cup XsdtMemories \cup MadtMemories \cup TableMemories

\* The buffers checksum is run on: every sequence of at most MaxBufLen of
\* these bytes.
BufferBytes == {0, 1, 127, 128, U8Max}
Buffers == {At(bytes, 0) : bytes \in UNION {[1..n -> BufferBytes] : n \in 0..MaxBufLen}}

(***************************************************************************)
(* State machine of the walker: the memory is what the firmware left, and  *)
(* one function of the walker is called on it once.                        *)
(***************************************************************************)

\* No function of the walker has been called yet.
NotCalled == fn = "none"

\* The call `name(a)` returned r.ret after reading r.reads; w is the record
\* of the XSDT entries init went through.
WalkerCall(name, a, r, w) ==
    /\ fn' = name
    /\ fn_arg' = a
    /\ fn_ret' = r.ret
    /\ reads' = r.reads
    /\ walked' = w
    /\ UNCHANGED <<mem, calls, ranges, in_use, pre_ranges, pre_in_use, op, arg,
                   ret, scan>>

\* The address the RSDP of the memory gives for the XSDT, and the addresses
\* the entries of that XSDT give for the tables.
XsdtAt == RsdpExtended(read_phys(mem, 0, SizeOfRsdpExtended)).xsdt_addr
EntryCount ==
    LET length == Table(read_phys(mem, XsdtAt, SizeOfTable)).length
    IN  IF length >= SizeOfTable THEN (length - SizeOfTable) \div SizeOfU64 ELSE 0
EntryAt(i) == XsdtAt + SizeOfTable + SizeOfU64 * i
TablesAt ==
    {from_le(read_phys(mem, EntryAt(i), SizeOfU64)) : i \in 0..(EntryCount - 1)}
\* The length field of the table at address t.
LengthAt(t) == Table(read_phys(mem, t, SizeOfTable)).length

\* The addresses at the top of the address space where a structure of
\* `size` bytes just fits, and where it no longer does.
TopFor(size) == {PhysMax + 1 - size, PhysMax + 2 - size}

InitAcpi ==
    /\ InitRangeSet
    /\ InitWalker
    /\ mem \in Memories

InitChecksum ==
    /\ InitRangeSet
    /\ InitWalker
    /\ mem \in Buffers

Checksum ==
    /\ NotCalled
    /\ \E addr \in 0..MaxBufLen \cup TopFor(SizeOfU8), size \in 0..MaxBufLen,
          typ \in {TableType("Rsdp"), Unknown(FACP)} :
           WalkerCall("checksum",
                      [NoFnArg EXCEPT !.addr = addr, !.size = size,
                                      !.typ = Some(typ)],
                      checksum(mem, addr, size, typ), <<>>)

RsdpFromAddr ==
    /\ NotCalled
    /\ \E addr \in {0, XsdtAt} \cup TopFor(SizeOfRsdp) :
           WalkerCall("Rsdp::from_addr", [NoFnArg EXCEPT !.addr = addr],
                      Rsdp_from_addr(mem, addr), <<>>)

RsdpExtendedFromAddr ==
    /\ NotCalled
    /\ \E addr \in {0, XsdtAt} \cup TopFor(SizeOfRsdp) :
           WalkerCall("RsdpExtended::from_addr", [NoFnArg EXCEPT !.addr = addr],
                      RsdpExtended_from_addr(mem, addr), <<>>)

\* Table::from_addr reads the header before any check: it is called where
\* the header lies within the address space.
TableFromAddr ==
    /\ NotCalled
    /\ \E addr \in {0, XsdtAt, PhysMax + 1 - SizeOfTable} \cup TablesAt :
           WalkerCall("Table::from_addr", [NoFnArg EXCEPT !.addr = addr],
                      Table_from_addr(mem, addr), <<>>)

\* Madt::from_addr on the payload of a table, on every prefix of it, and on
\* the last bytes of the address space.
MadtFromAddr ==
    /\ NotCalled
    /\ \E t \in TablesAt \cup {PhysMax + 1 - SizeOfTable - SizeOfU64 - SizeOfU8} :
           \E size \in 0..Max(LengthAt(t) - SizeOfTable, SizeOfU64 + SizeOfU8) :
               /\ t + SizeOfTable + size <= PhysMax + 1
               /\ \E r \in Madt_from_addr(mem, t + SizeOfTable, size) :
                      WalkerCall("Madt::from_addr",
                                 [NoFnArg EXCEPT !.addr = t + SizeOfTable,
                                                 !.size = size],
                                 r, r.walked)

AcpiInit ==
    /\ NotCalled
    /\ \E acpi_table \in {None, Some(0)} :
           \E r \in init(mem, acpi_table) :
               WalkerCall("init", [NoFnArg EXCEPT !.table = acpi_table],
                          r, r.walked)

NextChecksum == Checksum

SpecChecksum == InitChecksum /\ [][NextChecksum]_vars

NextAcpi ==
    \/ RsdpFromAddr
    \/ RsdpExtendedFromAddr
    \/ TableFromAddr
    \/ MadtFromAddr
    \/ AcpiInit

SpecAcpi == InitAcpi /\ [][NextAcpi]_vars

(***************************************************************************)
(* Vocabulary of the claims about the walker.                              *)
(***************************************************************************)

\* The sum of the n bytes of m from address a on.
ByteSum(m, a, n) == SeqSum(read_phys(m, a, n))
\* The n bytes from a on sum to zero modulo 256.
ZeroSum(m, a, n) == ByteSum(m, a, n) % 256 = 0
\* The n bytes from a on lie within the address space.
InSpace(a, n) == a + n <= PhysMax + 1
\* m with the byte at address a set to v.
Poke(m, a, v) ==
    [x \in DOMAIN m \cup {a} |-> IF x = a THEN v ELSE m[x]]
FnReturned(name) == fn = name

\* C11: for a buffer within the address space, checksum(addr, size, typ)
\* returns Ok when its bytes sum to zero modulo 256 and
\* ChecksumMismatch(typ) otherwise; and when it returns Ok, the same call
\* on the memory with any one byte of the buffer changed to any other
\* value returns ChecksumMismatch(typ).
C11_ChecksumIffZeroSum ==
    (FnReturned("checksum") /\ InSpace(fn_arg.addr, fn_arg.size))
        => /\ fn_ret = IF ZeroSum(mem, fn_arg.addr, fn_arg.size)
                       THEN Ok
                       ELSE TableErr("ChecksumMismatch", fn_arg.typ[1])
           /\ fn_ret = Ok =>
                  \A a \in Span(fn_arg.addr, fn_arg.size) :
                      \A v \in Byte \ {read_u8(mem, a)} :
                          checksum(Poke(mem, a, v), fn_arg.addr, fn_arg.size,
                                   fn_arg.typ[1]).ret
                              = TableErr("ChecksumMismatch", fn_arg.typ[1])

\* C11 witness: checksum returned Ok on a buffer of three bytes that are
\* not all zero, the sum wrapping around 256.
C11_Witness ==
    /\ FnReturned("checksum")
    /\ fn_arg.size = 3
    /\ fn_arg.addr = 0
    /\ fn_ret = Ok
    /\ mem = At(<<127, 1, 128>>, 0)

\* The signature of the RSDP at address a.
RsdpSignatureAt(a) == read_phys(mem, a, 8)
\* The 20 bytes at a are an RSDP that passes both checks of Rsdp::from_addr.
ValidRsdpAt(a) ==
    /\ InSpace(a, SizeOfRsdp)
    /\ ZeroSum(mem, a, SizeOfRsdp)
    /\ RsdpSignatureAt(a) = RSD_PTR

\* C12: on a 20-byte RSDP within the address space, Rsdp::from_addr returns
\* SignatureMismatch(Rsdp) whenever the 20 bytes sum to zero modulo 256 and
\* the first 8 differ from "RSD PTR ", and it returns Ok only when the sum
\* is zero and the signature matches.
C12_RsdpSignature ==
    (FnReturned("Rsdp::from_addr") /\ InSpace(fn_arg.addr, SizeOfRsdp))
        => /\ (ZeroSum(mem, fn_arg.addr, SizeOfRsdp)
                   /\ RsdpSignatureAt(fn_arg.addr) # RSD_PTR)
                  => fn_ret = TableErr("SignatureMismatch", TableType("Rsdp"))
           /\ fn_ret.kind = "Ok" => ValidRsdpAt(fn_arg.addr)

\* C12 witness: Rsdp::from_addr returned SignatureMismatch(Rsdp) on an RSDP
\* with a valid checksum whose signature differs from "RSD PTR " in the
\* last byte only.
C12_Witness ==
    /\ FnReturned("Rsdp::from_addr")
    /\ fn_arg.addr = 0
    /\ ZeroSum(mem, 0, SizeOfRsdp)
    /\ RsdpSignatureAt(0) = [RSD_PTR EXCEPT ![8] = 0]
    /\ fn_ret = TableErr("SignatureMismatch", TableType("Rsdp"))

\* The revision field of the RSDP at address a.
RevisionAt(a) == read_u8(mem, a + 15)

\* C13: when the 20-byte RSDP is valid and its revision is below 2,
\* RsdpExtended::from_addr returns RevisionTooOld and has read no byte at
\* offset 20 or beyond from the address of the RSDP.
C13_RevisionTooOld ==
    (FnReturned("RsdpExtended::from_addr") /\ ValidRsdpAt(fn_arg.addr)
         /\ RevisionAt(fn_arg.addr) < 2)
        => /\ fn_ret = Err("RevisionTooOld")
           /\ reads \subseteq Span(fn_arg.addr, SizeOfRsdp)

\* C13 witness: a valid RSDP of revision 1 whose 36 bytes do not sum to
\* zero; the call returned RevisionTooOld after reading the 20 bytes.
C13_Witness ==
    /\ FnReturned("RsdpExtended::from_addr")
    /\ fn_arg.addr = 0
    /\ ValidRsdpAt(0)
    /\ RevisionAt(0) = 1
    /\ ~ZeroSum(mem, 0, SizeOfRsdpExtended)
    /\ fn_ret = Err("RevisionTooOld")
    /\ reads = Span(0, SizeOfRsdp)

\* The table type of the signature of the header at address a.
TypAt(a) == TableType_from(read_phys(mem, a, 4))

\* C14 as stated: Table::from_addr returns LengthMismatch for every header
\* whose length field is below 36, whatever the other bytes are.  The
\* headers are those with a payload address, addr + 36 not overflowing.
C14_ShortLengthAlways ==
    (FnReturned("Table::from_addr") /\ LengthAt(fn_arg.addr) < SizeOfTable
         /\ fn_arg.addr + SizeOfTable <= PhysMax)
        => fn_ret.kind = "LengthMismatch"

\* C14 as amended: for a header whose length field is below 36 and whose
\* address plus 36 does not overflow, Table::from_addr returns
\* LengthMismatch(typ) when the bytes the length field declares sum to zero
\* modulo 256, and ChecksumMismatch(typ) when they do not.
C14_ShortLengthAfterChecksum ==
    (FnReturned("Table::from_addr") /\ LengthAt(fn_arg.addr) < SizeOfTable
         /\ fn_arg.addr + SizeOfTable <= PhysMax)
        => fn_ret = IF ZeroSum(mem, fn_arg.addr, LengthAt(fn_arg.addr))
                    THEN TableErr("LengthMismatch", TypAt(fn_arg.addr))
                    ELSE TableErr("ChecksumMismatch", TypAt(fn_arg.addr))

\* C14 witness: a header with length field 20 whose first 20 bytes sum to
\* zero; Table::from_addr returned LengthMismatch.
C14_Witness ==
    /\ FnReturned("Table::from_addr")
    /\ LengthAt(fn_arg.addr) = 20
    /\ ZeroSum(mem, fn_arg.addr, 20)
    /\ fn_ret = TableErr("LengthMismatch", Unknown(FACP))

\* The table at address a passes Table::from_addr: the bytes its length
\* field declares lie within the address space and sum to zero modulo 256,
\* and the length is at least the size of the header.
ValidTableAt(a) ==
    /\ LengthAt(a) >= SizeOfTable
    /\ a + LengthAt(a) <= PhysMax
    /\ ZeroSum(mem, a, LengthAt(a))
\* The 36 bytes at address a pass RsdpExtended::from_addr.
ValidRsdpExtendedAt(a) ==
    /\ ValidRsdpAt(a)
    /\ RevisionAt(a) >= 2
    /\ InSpace(a, SizeOfRsdpExtended)
    /\ ZeroSum(mem, a, SizeOfRsdpExtended)
    /\ from_le(read_phys(mem, a + 20, 4)) = SizeOfRsdpExtended
\* The signature of the table at address a.
SignatureAt(a) == read_phys(mem, a, 4)
\* init was called with the RSDP at address 0 and reached the XSDT, a
\* valid table of signature XSDT.
InitReachedXsdt ==
    /\ FnReturned("init")
    /\ fn_arg.table = Some(0)
    /\ ValidRsdpExtendedAt(0)
    /\ ValidTableAt(XsdtAt)
    /\ SignatureAt(XsdtAt) = XSDT

\* C15: when the table at the xsdt_addr of the RSDP is a valid table of
\* signature XSDT whose payload length is not a multiple of 8, init returns
\* XsdtBadEntries, has gone through no XSDT entry, and has read nothing but
\* the RSDP and the bytes of the XSDT that its checksum covers.
C15_XsdtBadEntries ==
    (InitReachedXsdt /\ (LengthAt(XsdtAt) - SizeOfTable) % 8 # 0)
        => /\ fn_ret = Err("XsdtBadEntries")
           /\ walked = <<>>
           /\ reads \subseteq Span(0, SizeOfRsdpExtended)
                                  \cup Span(XsdtAt, LengthAt(XsdtAt))

\* C15 witness: init returned XsdtBadEntries on an XSDT with a payload of
\* 13 bytes, and on one with a payload of 12 bytes.
C15_Witness ==
    /\ InitReachedXsdt
    /\ LengthAt(XsdtAt) - SizeOfTable \in {12, 13}
    /\ fn_ret = Err("XsdtBadEntries")

\* How the record stream of `rem` bytes at address a ends, going from
\* record to record by the declared lengths: "complete" at the end of a
\* record, "header_cut" when one byte is left for a record header, "cut"
\* when a record declares more bytes than are left, and "malformed" at a
\* record whose length is below 2 or is not the length of its type.
RECURSIVE StreamEnd(_, _)
StreamEnd(a, rem) ==
    LET typ == read_u8(mem, a)
        len == read_u8(mem, a + 1)
    IN  IF rem = 0 THEN "complete"
        ELSE IF rem < 2 THEN "header_cut"
        ELSE IF len < 2 \/ (typ = 0 /\ len # 2 + SizeOfLocalApic)
                        \/ (typ = 9 /\ len # 2 + SizeOfLocalX2apic)
        THEN "malformed"
        ELSE IF len > rem THEN "cut"
        ELSE StreamEnd(a + len, rem - len)

\* Madt::from_addr was called on a payload that holds the local APIC
\* address and the flags, and whose record stream ends as `how` says.
MadtStream(how) ==
    /\ FnReturned("Madt::from_addr")
    /\ fn_arg.size >= 2 * SizeOfU32
    /\ StreamEnd(fn_arg.addr + 2 * SizeOfU32, fn_arg.size - 2 * SizeOfU32) \in how

\* C16: when the record stream of the MADT ends in the middle of a record
\* (one byte left for a record header, or a record that declares more
\* bytes than are left), Madt::from_addr does not return an error.  (That
\* the call completes at all is the matter of C17.)
C16_TruncationTolerated ==
    MadtStream({"header_cut", "cut"}) => fn_ret.kind \in {"Ok", "Panic"}

\* C17: every call of a function of the walker finishes by returning Ok or
\* an Err: none reaches a panic.
C17_NoPanic ==
    fn \in {"checksum", "Rsdp::from_addr", "RsdpExtended::from_addr",
            "Table::from_addr", "Madt::from_addr", "init"}
        => fn_ret.kind # "Panic"

\* The turns of the loop of init, and the turns whose table is valid and
\* has a signature other than APIC and SRAT.
Turns == 1..Len(walked)
OtherTable(i) ==
    /\ ValidTableAt(walked[i].table_addr)
    /\ SignatureAt(walked[i].table_addr) \notin {APIC, SRAT}

C20_DispatchByType ==
    FnReturned("init") =>
        \A i \in Turns :
            LET at == walked[i].table_addr
                passed(parser) ==
                    /\ walked[i].parser = parser
                    /\ walked[i].data = at + SizeOfTable
                    /\ walked[i].length = LengthAt(at) - SizeOfTable
            IN  ValidTableAt(at) =>
                    /\ SignatureAt(at) = APIC => passed("Madt")
                    /\ SignatureAt(at) = SRAT => passed("Srat")

(***************************************************************************)
(* Further properties of the range set.                                    *)
(***************************************************************************)
\* The bytes of front padding an align-aligned block needs in entry ent.
AlignFix(ent, align) == (align - (ent.start % align)) % align
\* The first align-aligned address of entry ent.
AlignedStart(ent, align) == ent.start + AlignFix(ent, align)
\* Entry ent holds an align-aligned block of size addresses.
Fits(ent, size, align) ==
    /\ AlignedStart(ent, align) + (size - 1) <= U64Max
    /\ AlignedStart(ent, align) + (size - 1) <= ent.end
\* The number of addresses of entry ent.
EntrySize(ent) == ent.end - ent.start + 1
\* No preferred region was supplied, or none holds an aligned block inside
\* a free entry.
NoPreferredMatch ==
    \/ arg.regions = None
    \/ ~PreferredBlockExists(Pre, arg.regions[1], arg.size, arg.align)
\* The block returned was carved from the entry at index i.
CarvedFrom(i) ==
    /\ Fits(pre_ranges[i], arg.size, arg.align)
    /\ ret.val = AlignedStart(pre_ranges[i], arg.align)

\* C21 as stated: without a preferred match, a successful allocation takes
\* the block from an entry of minimum size among the entries able to hold
\* the aligned block, the first such entry in entry order.
C21_SmallestEntry ==
    (ReturnedAlloc /\ ret.kind = "Ok" /\ NoPreferredMatch) =>
        \E i \in PreInUse :
            /\ CarvedFrom(i)
            /\ \A j \in PreInUse :
                   Fits(pre_ranges[j], arg.size, arg.align) =>
                       /\ EntrySize(pre_ranges[i]) <= EntrySize(pre_ranges[j])
                       /\ EntrySize(pre_ranges[i]) = EntrySize(pre_ranges[j])
                              => i <= j

\* C21 amended: without a preferred match, a successful allocation takes the
\* block from the entry that needs the least front padding among the entries
\* able to hold the aligned block (the size of the entry plays no part), and
\* from the first of them in entry order when several need the same padding.
C21_LeastPadding ==
    (ReturnedAlloc /\ ret.kind = "Ok" /\ NoPreferredMatch) =>
        \E i \in PreInUse :
            /\ CarvedFrom(i)
            /\ \A j \in PreInUse :
                   Fits(pre_ranges[j], arg.size, arg.align) =>
                       /\ AlignFix(pre_ranges[i], arg.align)
                              <= AlignFix(pre_ranges[j], arg.align)
                       /\ AlignFix(pre_ranges[i], arg.align)
                              = AlignFix(pre_ranges[j], arg.align) => i <= j

\* C21 witness: regions were supplied and none matched; the block came from
\* the second entry, which needs no padding, although the first entry is
\* smaller and holds the aligned block too.
C21_Witness ==
    /\ ReturnedOk("allocate_prefer")
    /\ NoPreferredMatch
    /\ arg.regions[1].in_use = 1
    /\ arg.size = 1
    /\ arg.align = 2
    /\ pre_in_use = 2
    /\ pre_ranges[0] = Range(1, 2)
    /\ pre_ranges[1] = Range(4, 7)
    /\ ret.val = 4

\* Range r overlaps or is adjacent to the non-empty entry e.
Touches(r, e) ==
    /\ e.start <= e.end
    /\ r.start <= e.end + 1
    /\ e.start <= r.end + 1
\* The entries of the set before the call that the range of the call
\* overlaps or touches.
Touched == {i \in PreInUse : Touches(arg.range, pre_ranges[i])}

\* C22: insert returns OutOfEntries only when the set already held Capacity
\* entries and the inserted range overlapped or touched none of them, and it
\* leaves the set unchanged then; an insert whose range merges with at least
\* one entry returns Ok, also on a full set.
C22_OutOfEntriesOnlyWhenFull ==
    Returned("insert") =>
        /\ ret.kind = "OutOfEntries" =>
               /\ pre_in_use = Capacity
               /\ Touched = {}
               /\ Self = Pre
        /\ (arg.range \in ValidRange /\ Touched # {}) => ret.kind = "Ok"

\* C22 witness: an insert into a full set of a range that touches none of
\* its entries returned OutOfEntries.
C22_Witness ==
    /\ Returned("insert")
    /\ ret.kind = "OutOfEntries"
    /\ pre_in_use = Capacity
    /\ Touched = {}

\* An insert into a full set merged with two of its entries and returned Ok.
C22_MergeOnFullSet ==
    /\ ReturnedOk("insert")
    /\ pre_in_use = Capacity
    /\ Cardinality(Touched) = 2
    /\ in_use = Capacity - 1

(***************************************************************************)
(* Further properties of the walker.                                       *)
(***************************************************************************)
\* The length field of the extended RSDP at address a.
RsdpLengthAt(a) == from_le(read_phys(mem, a + SizeOfRsdp, SizeOfU32))
\* What the five checks of the extended RSDP at address a give when they
\* are applied in the order 20-byte checksum, signature, revision, 36-byte
\* checksum, length: the error of the first that fails, or "Ok".
FirstFailedAt(a) ==
    IF ~ZeroSum(mem, a, SizeOfRsdp)
    THEN TableErr("ChecksumMismatch", TableType("Rsdp"))
    ELSE IF RsdpSignatureAt(a) # RSD_PTR
    THEN TableErr("SignatureMismatch", TableType("Rsdp"))
    ELSE IF RevisionAt(a) < 2
    THEN Err("RevisionTooOld")
    ELSE IF ~ZeroSum(mem, a, SizeOfRsdpExtended)
    THEN TableErr("ChecksumMismatch", TableType("RsdpExtended"))
    ELSE IF RsdpLengthAt(a) # SizeOfRsdpExtended
    THEN TableErr("LengthMismatch", TableType("RsdpExtended"))
    ELSE Ok

\* C23: on a 36-byte structure within the address space,
\* RsdpExtended::from_addr reports the first check that fails in the order
\* 20-byte checksum (ChecksumMismatch(Rsdp)), signature
\* (SignatureMismatch(Rsdp)), revision >= 2 (RevisionTooOld), 36-byte
\* checksum (ChecksumMismatch(RsdpExtended)), length = 36
\* (LengthMismatch(RsdpExtended)), and returns Ok with the structure read
\* exactly when all five hold.
C23_ChecksInOrder ==
    (FnReturned("RsdpExtended::from_addr")
         /\ InSpace(fn_arg.addr, SizeOfRsdpExtended))
        => IF FirstFailedAt(fn_arg.addr) = Ok
           THEN fn_ret = OkVal(RsdpExtended(read_phys(mem, fn_arg.addr,
                                                      SizeOfRsdpExtended)))
           ELSE fn_ret = FirstFailedAt(fn_arg.addr)

\* C23 witness: the 20-byte part is valid and of revision 2, the 36 bytes do
\* not sum to zero and the length field is not 36 either: the call reported
\* the checksum, the earlier of the two failed checks.
C23_Witness ==
    /\ FnReturned("RsdpExtended::from_addr")
    /\ fn_arg.addr = 0
    /\ ValidRsdpAt(0)
    /\ RevisionAt(0) = 2
    /\ ~ZeroSum(mem, 0, SizeOfRsdpExtended)
    /\ RsdpLengthAt(0) # SizeOfRsdpExtended
    /\ fn_ret = TableErr("ChecksumMismatch", TableType("RsdpExtended"))

\* The turns of the record loop of Madt::from_addr that began with a whole
\* record header in the buffer, on a payload that ends below the top of the
\* address space.
RecordTurns ==
    {i \in 1..Len(walked) :
        walked[i].len >= 2 * SizeOfU8 /\ fn_arg.addr + fn_arg.size <= PhysMax}
\* The type byte and the length byte of the record at the cursor of turn i.
RecordType(i) == read_u8(mem, walked[i].addr)
RecordLength(i) == read_u8(mem, walked[i].addr + SizeOfU8)
\* The record of turn i is of type typ and declares size data bytes.
RecordOf(i, typ, size) ==
    RecordType(i) = typ /\ RecordLength(i) = 2 * SizeOfU8 + size
\* The record of turn i is of type typ and declares a wrong data size.
WrongSize(i, typ, size) ==
    /\ RecordType(i) = typ
    /\ RecordLength(i) >= 2 * SizeOfU8
    /\ RecordLength(i) # 2 * SizeOfU8 + size
\* Madt::from_addr left the loop in turn i with LengthMismatch(Madt).
FailedIn(i) == fn_ret = E /\ i = Len(walked)

\* C24: in the record stream of the MADT, a record whose length byte is
\* below 2 fails with LengthMismatch(Madt), so does a record of type 0 whose
\* data size is not 6 and a record of type 9 whose data size is not 14; a
\* record of type 0 or 9 of the right size moves the cursor on by exactly
\* its declared length.
C24_RecordLengths ==
    FnReturned("Madt::from_addr") =>
        \A i \in RecordTurns :
            /\ RecordLength(i) < 2 * SizeOfU8 => FailedIn(i)
            /\ WrongSize(i, 0, SizeOfLocalApic) => FailedIn(i)
            /\ WrongSize(i, 9, SizeOfLocalX2apic) => FailedIn(i)
            /\ (RecordOf(i, 0, SizeOfLocalApic)
                    \/ RecordOf(i, 9, SizeOfLocalX2apic)) =>
                   /\ i < Len(walked)
                   /\ walked[i + 1].addr = walked[i].addr + RecordLength(i)
                   /\ walked[i + 1].len = walked[i].len - RecordLength(i)

\* The record of turn i is of a type other than 0 and 9, declares at least
\* its 2 header bytes (C24 is about the shorter ones) and no more bytes than
\* the buffer holds.
UnknownRecordFits(i) ==
    /\ RecordType(i) \notin {0, 9}
    /\ RecordLength(i) >= 2 * SizeOfU8
    /\ RecordLength(i) <= walked[i].len
\* The addresses of the data bytes of the record of turn i.
RecordData(i) ==
    Span(walked[i].addr + 2 * SizeOfU8, RecordLength(i) - 2 * SizeOfU8)

\* C25: a MADT record whose type is neither 0 nor 9 and whose declared
\* length fits in what is left of the buffer is no error: its length - 2
\* data bytes are passed over without being read and the parse goes on with
\* the record that starts right behind it.
C25_UnknownRecordSkipped ==
    FnReturned("Madt::from_addr") =>
        \A i \in RecordTurns :
            UnknownRecordFits(i) =>
                /\ i < Len(walked)
                /\ walked[i + 1].addr = walked[i].addr + RecordLength(i)
                /\ walked[i + 1].len = walked[i].len - RecordLength(i)
                /\ reads \cap RecordData(i) = {}

\* C25 witness: a record of type 5 with two data bytes was passed over and
\* the parse went on with the record behind it.
C25_Witness ==
    /\ FnReturned("Madt::from_addr")
    /\ \E i \in RecordTurns :
          /\ UnknownRecordFits(i)
          /\ RecordType(i) = 5
          /\ RecordLength(i) = 4
          /\ i + 1 \in RecordTurns
          /\ walked[i + 1].addr = walked[i].addr + 4
          /\ walked[i + 1].addr \in reads

\* The number of in-use entries of rs that are equal to the range r.
CountOf(rs, r) == Cardinality({i \in 0..(rs.in_use - 1) : rs.ranges[i] = r})

\* C26: delete(idx) with idx < in_use removes exactly the entry at idx by
\* moving the last in-use entry into its place: the in-use count drops by
\* one and the in-use entries are, as a multiset, the entries before minus
\* that one; delete(idx) with idx >= in_use returns InvalidIndex and leaves
\* the set unchanged.
C26_DeleteOneEntry ==
    Returned("delete") =>
        IF arg.idx < pre_in_use
        THEN /\ ret = Ok
             /\ in_use = pre_in_use - 1
             /\ arg.idx < in_use => ranges[arg.idx] = pre_ranges[pre_in_use - 1]
             /\ \A i \in InUse \ {arg.idx} : ranges[i] = pre_ranges[i]
             /\ \A r \in AnyRange :
                    CountOf(Self, r) = CountOf(Pre, r)
                        - (IF r = pre_ranges[arg.idx] THEN 1 ELSE 0)
        ELSE /\ ret = Err("InvalidIndex")
             /\ Self = Pre

\* C26 witness: delete(0) on a set of three distinct entries moved the last
\* entry into slot 0.
C26_Witness ==
    /\ ReturnedOk("delete")
    /\ arg.idx = 0
    /\ pre_in_use = 3
    /\ in_use = 2
    /\ pre_ranges[0] # pre_ranges[2]
    /\ ranges[0] = pre_ranges[2]
    /\ ranges[1] = pre_ranges[1]

(***************************************************************************)
(* State machine of the physical-memory cursor on its own: a PhysSlice is  *)
(* created by PhysSlice::new and then consumed and discarded from.  The    *)
(* variable walked holds the cursor after new and after every later call,  *)
(* fn, fn_arg and fn_ret the last call.                                    *)
(***************************************************************************)
\* Largest number of consume and discard calls made on one cursor.
MaxSteps == 3
\* Largest size a cursor is created with, and largest number of bytes
\* passed to discard.
MaxSliceLen == 6

\* The memory the cursor reads.
CursorMemory == At(<<1, 2, 3, 4, 5, 6, 7>>, 0)

\* One call made on the cursor: its name, the number of bytes asked for
\* (size_of::<T>() for consume), whether it returned Ok, and the cursor
\* after it.
Step(name, bytes, ok, slice) ==
    [op |-> name, bytes |-> bytes, ok |-> ok, slice |-> slice]

\* The cursor as the last call left it.
Cursor == walked[Len(walked)].slice

\* A further call can be made on the cursor: it exists and no call on it
\* has panicked.
CanStep ==
    /\ fn \in {"PhysSlice::new", "PhysSlice::consume", "PhysSlice::discard"}
    /\ fn_ret.kind # "Panic"
    /\ Len(walked) <= MaxSteps

InitCursor ==
    /\ InitRangeSet
    /\ InitWalker
    /\ mem = CursorMemory

SliceNew ==
    /\ NotCalled
    /\ \E addr \in {0, 3} \cup TopFor(SizeOfU32), size \in 0..MaxSliceLen :
           /\ fn' = "PhysSlice::new"
           /\ fn_arg' = [NoFnArg EXCEPT !.addr = addr, !.size = size]
           /\ fn_ret' = Ok
           /\ reads' = {}
           /\ walked' = <<Step("PhysSlice::new", size, TRUE,
                               PhysSlice(addr, size))>>
    /\ UNCHANGED <<mem, calls, ranges, in_use, pre_ranges, pre_in_use, op, arg,
                   ret, scan>>

\* The call `name` asking for `bytes` bytes made the step s and returns r
\* when it succeeds.  When the
\* unchecked `+=` on the address overflowed, the build with overflow checks
\* panics there and the build without goes on with the wrapped address.
SliceStep(name, bytes, s, r) ==
    /\ \E panics \in (IF s.overflowed THEN {TRUE, FALSE} ELSE {FALSE}) :
           /\ fn' = name
           /\ fn_arg' = [NoFnArg EXCEPT !.addr = Cursor.addr, !.size = bytes]
           /\ fn_ret' = IF panics THEN Panic
                        ELSE IF s.ok THEN r ELSE Err("()")
           /\ reads' = reads \cup s.reads
           /\ walked' = IF panics THEN walked
                        ELSE Append(walked, Step(name, bytes, s.ok, s.slice))
    /\ UNCHANGED <<mem, calls, ranges, in_use, pre_ranges, pre_in_use, op, arg,
                   ret, scan>>

SliceConsume ==
    /\ CanStep
    /\ \E size \in {SizeOfU8, SizeOfU32, SizeOfLocalApic} :
           SliceStep("PhysSlice::consume", size, consume(mem, Cursor, size),
                     OkVal(consume(mem, Cursor, size).data))

SliceDiscard ==
    /\ CanStep
    /\ \E bytes \in 0..MaxSliceLen :
           SliceStep("PhysSlice::discard", bytes, discard(Cursor, bytes), Ok)

NextCursor ==
    \/ SliceNew
    \/ SliceConsume
    \/ SliceDiscard

SpecCursor == InitCursor /\ [][NextCursor]_vars

\* A cursor exists.
SliceMade == fn \in {"PhysSlice::new", "PhysSlice::consume", "PhysSlice::discard"}
\* The cursor was created on a buffer that ends below the top of the
\* address space: no address the cursor can take overflows.
BelowTop == walked[1].slice.addr + walked[1].slice.len <= PhysMax
\* The calls made on the cursor after new.
Steps == 2..Len(walked)
\* The call of step i asked for more bytes than the cursor had left.
AsksTooMuch(i) == walked[i].bytes > walked[i - 1].slice.len

Pending == [kind |-> "Pending", val |-> 0]

\* What a turn leaves: the set, the position in the loop, and the result
\* of the call once it has returned.
Scanned(rs, sc, r) == [rs |-> rs, scan |-> sc, ret |-> r]

\* merge_turn that starts over without deleting the entry it merged.
merge_turn_keeps_entry(rs, sc) ==
    LET ent == rs.ranges[sc.ii]
    IN  IF ~touches(sc.range, ent)
        THEN Scanned(rs, Scan("try_merges", sc.ii + 1, sc.range), Pending)
        ELSE Scanned(rs, Scan("try_merges", 0, union(sc.range, ent)), Pending)

\* One turn of the for loop of 'try_merges, at index sc.ii < rs.in_use.
merge_turn(rs, sc) ==
    LET ent == rs.ranges[sc.ii]
    IN  IF ~touches(sc.range, ent)
        THEN Scanned(rs, Scan("try_merges", sc.ii + 1, sc.range), Pending)
        ELSE Scanned(delete(rs, sc.ii).rs,
                     Scan("try_merges", 0, union(sc.range, ent)), Pending)

\* The end of insert, once the for loop has run through.
insert_append(rs, sc) ==
    IF rs.in_use < Capacity
    THEN Scanned(RS([rs.ranges EXCEPT ![rs.in_use] = sc.range], rs.in_use + 1),
                 NoScan, Ok)
    ELSE Scanned(rs, NoScan, Err("OutOfEntries"))

\* The next step of an insert that is in its loop.
insert_step(rs, sc) ==
    IF sc.ii < rs.in_use THEN merge_turn(rs, sc) ELSE insert_append(rs, sc)

\* One turn of the for loop of 'try_subtraction, at index sc.ii < rs.in_use.
subtraction_turn(rs, sc) ==
    LET ent == rs.ranges[sc.ii]
        on == Scan("try_subtraction", sc.ii + 1, sc.range)
        over == Scan("try_subtraction", 0, sc.range)
        shrunk == RS([rs.ranges EXCEPT
                         ![sc.ii].start = saturating_add1(sc.range.end)],
                     rs.in_use)
    IN  IF overlaps(sc.range, ent) = None
        THEN Scanned(rs, on, Pending)
        ELSE IF contains(ent, sc.range)
        THEN Scanned(delete(rs, sc.ii).rs, over, Pending)
        ELSE IF sc.range.start <= ent.start
        THEN Scanned(shrunk, on, Pending)
        ELSE IF sc.range.end >= ent.end
        THEN Scanned(RS([rs.ranges EXCEPT
                            ![sc.ii].end = saturating_sub1(sc.range.start)],
                        rs.in_use), on, Pending)
        ELSE IF shrunk.in_use < Capacity
        THEN Scanned(RS([shrunk.ranges EXCEPT
                            ![shrunk.in_use] = split_tail(shrunk, sc.range)],
                        shrunk.in_use + 1), over, Pending)
        ELSE Scanned(shrunk, NoScan, Err("OutOfEntries"))

\* The next step of a remove that is in its loop.
remove_step(rs, sc) ==
    IF sc.ii < rs.in_use
    THEN subtraction_turn(rs, sc)
    ELSE Scanned(rs, NoScan, Ok)

\* The call `name(r)` has passed its range check and enters its loop.
Enter(name, label, r) ==
    /\ calls' = calls + 1
    /\ pre_ranges' = ranges
    /\ pre_in_use' = in_use
    /\ op' = name
    /\ arg' = [NoArg EXCEPT !.range = r]
    /\ ret' = Pending
    /\ scan' = Scan(label, 0, r)
    /\ UNCHANGED <<ranges, in_use>>
    /\ UNCHANGED acpiVars

\* The call in the loop took the step s.
Turned(s) ==
    /\ ranges' = s.rs.ranges
    /\ in_use' = s.rs.in_use
    /\ scan' = s.scan
    /\ ret' = s.ret
    /\ UNCHANGED <<calls, pre_ranges, pre_in_use, op, arg>>
    /\ UNCHANGED acpiVars

InsertEnter ==
    /\ CanCall
    /\ \E r \in AnyRange :
           IF r.end < r.start
           THEN Call("insert", [NoArg EXCEPT !.range = r],
                     Out(Self, Err("InvalidRange")))
           ELSE Enter("insert", "try_merges", r)

InsertTurn ==
    /\ scan.label = "try_merges"
    /\ Turned(insert_step(Self, scan))

RemoveEnter ==
    /\ CanCall
    /\ \E r \in AnyRange :
           IF r.end < r.start
           THEN Call("remove", [NoArg EXCEPT !.range = r],
                     Out(Self, Err("InvalidRange")))
           ELSE Enter("remove", "try_subtraction", r)

RemoveTurn ==
    /\ scan.label = "try_subtraction"
    /\ Turned(remove_step(Self, scan))

NextLoops ==
    \/ Continue
    \/ InsertEnter
    \/ InsertTurn
    \/ RemoveEnter
    \/ RemoveTurn

\* A call that is in its loop goes on running: the code is sequential and
\* nothing suspends it.
SpecLoops ==
    /\ Init
    /\ [][NextLoops]_vars
    /\ WF_vars(InsertTurn \/ RemoveTurn)

\* C28: every call of insert and every call of remove that enters its
\* restart loop leaves it: the call returns, whatever the set and the
\* range.
C28_LoopsTerminate == Running ~> ~Running

\* The call that has returned did to the set, and returned, what the
\* operators insert and remove say.
LoopsAgree ==
    /\ (op = "insert" /\ ~Running) => Out(Self, ret) = insert(Pre, arg.range)
    /\ (op = "remove" /\ ~Running) => Out(Self, ret) = remove(Pre, arg.range)

\* C28 witness: a remove on a full set deleted all three entries, starting
\* its scan over after each, and returned.
C28_Witness ==
    /\ op = "remove"
    /\ ~Running
    /\ ret = Ok
    /\ pre_in_use = Capacity
    /\ in_use = 0

(***************************************************************************)
(* Part 3, the firmware memory map (src/src/efi.rs).  get_memory_map asks  *)
(* the firmware for its memory map, folds the descriptors of memory that   *)
(* is usable once boot services are left into a RangeSet, and asks the     *)
(* firmware to exit boot services.  The firmware is an input: what its two *)
(* calls report and the descriptors it writes.  The page, the descriptor   *)
(* and the buffer are scaled down with the word.                           *)
(***************************************************************************)
\* Bytes of a page in the scaled-down word (4096 in the code).
PageSize == 2
\* size_of::<EfiMemoryDescriptor>() scaled down (40 in the code).
SizeOfEfiMemoryDescriptor == 2
\* Length of the buffer memory_map scaled down (4 * 1024 in the code).
MemoryMapLen == 6
\* Largest number of descriptors the firmware writes.
MaxDescriptors == 2

\* The values of the field typ: 0..14 are the defined memory types, 15
\* stands for every other value.
TypeCodes == 0..15
\* What a firmware call reports.
EfiStatus == {"Success", "Error"}

checked_mul(x, y) == IF x * y > U64Max THEN None ELSE Some(x * y)

\* impl From<u32> for EfiMemoryType
EfiMemoryType(val) ==
    IF val < 15
    THEN <<"ReservedMemoryType", "LoaderCode", "LoaderData", "BootServiceCode",
           "BootServiceData", "RuntimeServiceCode", "RuntimeServiceData",
           "ConventionalMemory", "UnusableMemory", "ACPIReclaimMemory",
           "ACPIMemoryNVS", "MemoryMappedIO", "MemoryMappedIOPortSpace",
           "PalCode", "PersistentMemory">>[val + 1]
    ELSE "Invalid"

\* EfiMemoryType::avail_post_exit_boot_service
avail_post_exit_boot_service(typ) ==
    typ \in {"BootServiceCode", "BootServiceData", "ConventionalMemory",
             "PersistentMemory"}

\* The fields of EfiMemoryDescriptor that get_memory_map reads.
EfiMemoryDescriptor(typ, physical_start, number_of_pages) ==
    [typ |-> typ, physical_start |-> physical_start,
     number_of_pages |-> number_of_pages]

\* The descriptors the firmware may write: any type, a page-aligned start,
\* any number of pages up to one that overflows the word.
Descriptors ==
    {EfiMemoryDescriptor(typ, start, pages) :
        typ \in TypeCodes,
        start \in {a \in U64 : a % PageSize = 0},
        pages \in 0..((U64Max + 1) \div PageSize)}

\* Sequences of at most n descriptors.
DescriptorSeqs(n) == UNION {[1..k -> Descriptors] : k \in 0..n}

\* What the firmware does in one call of get_memory_map: whether the system
\* table was registered, what its get_memory_map reports, the descriptor
\* size and the descriptors it writes, and what its exit_boot_services
\* reports.
Firmware(registered, map_status, mdesc_size, map, exit_status) ==
    [registered |-> registered, map_status |-> map_status,
     mdesc_size |-> mdesc_size, map |-> map, exit_status |-> exit_status]

\* The loop over the descriptors, at byte offset `offset` of the buffer,
\* with `size` bytes written.
RECURSIVE memory_map_entries(_, _, _, _)
memory_map_entries(fw, size, offset, usable_memory) ==
    IF offset >= size
    THEN Out(usable_memory, Ok)
    ELSE IF \/ offset > MemoryMapLen
            \/ offset + SizeOfEfiMemoryDescriptor > MemoryMapLen - offset
    THEN Out(usable_memory, Err("MemoryMapOutOfBounds"))
    ELSE LET entry == fw.map[(offset \div fw.mdesc_size) + 1]
             bytes == checked_mul(entry.number_of_pages, PageSize)
             end == checked_add(entry.physical_start, bytes[1] - 1)
             on == offset + fw.mdesc_size
         IN  IF ~(/\ avail_post_exit_boot_service(EfiMemoryType(entry.typ))
                  /\ entry.number_of_pages > 0)
             THEN memory_map_entries(fw, size, on, usable_memory)
             ELSE IF bytes = None
             THEN Out(usable_memory, Err("MemoryMapIntegerOverflow"))
             ELSE IF end = None
             THEN Out(usable_memory, Err("MemoryMapIntegerOverflow"))
             ELSE IF insert(usable_memory,
                            Range(entry.physical_start, end[1])).ret # Ok
             THEN Out(usable_memory, Err("MemoryRangeSet"))
             ELSE memory_map_entries(
                      fw, size, on,
                      insert(usable_memory,
                             Range(entry.physical_start, end[1])).rs)

\* efi::get_memory_map.  The test on what exit_boot_services reports is
\* `ret == EfiStatus::Success`, as the code has it.
get_memory_map(fw) ==
    IF ~fw.registered
    THEN Err("NotRegistered")
    ELSE IF fw.map_status # "Success"
    THEN Err("MemoryMap")
    ELSE LET folded == memory_map_entries(fw, Len(fw.map) * fw.mdesc_size,
                                          0, new)
         IN  IF folded.ret # Ok
             THEN folded.ret
             ELSE IF fw.exit_status = "Success"
             THEN Err("ExitBootServices")
             ELSE OkVal(folded.rs)

GetMemoryMap ==
    /\ NotCalled
    /\ \E registered \in BOOLEAN, map_status \in EfiStatus,
          exit_status \in EfiStatus,
          mdesc_size \in {SizeOfEfiMemoryDescriptor,
                          SizeOfEfiMemoryDescriptor + 1},
          map \in DescriptorSeqs(MaxDescriptors) :
           /\ Len(map) * mdesc_size <= MemoryMapLen
           /\ fn' = "get_memory_map"
           /\ fn_arg' = [NoFnArg EXCEPT !.table =
                            Some(Firmware(registered, map_status, mdesc_size,
                                          map, exit_status))]
           /\ fn_ret' = get_memory_map(Firmware(registered, map_status,
                                                mdesc_size, map, exit_status))
           /\ reads' = {}
           /\ walked' = <<>>
    /\ UNCHANGED <<mem, calls, ranges, in_use, pre_ranges, pre_in_use, op, arg,
                   ret, scan>>

NextEfi == GetMemoryMap

SpecEfi == Init /\ [][NextEfi]_vars

\* What the firmware did in the call.
Fw == fn_arg.table[1]
\* Both firmware calls were made and reported success.
BothSucceed ==
    /\ Fw.registered
    /\ Fw.map_status = "Success"
    /\ Fw.exit_status = "Success"
\* A firmware call was made and reported a failure.
EitherFails ==
    /\ Fw.registered
    /\ \/ Fw.map_status # "Success"
       \/ Fw.exit_status # "Success"
\* The descriptors of memory that is usable once boot services are left.
Usable ==
    {i \in 1..Len(Fw.map) :
        /\ Fw.map[i].typ \in {3, 4, 7, 14}
        /\ Fw.map[i].number_of_pages > 0}
\* The addresses of descriptor d.
DescriptorAddrs(d) ==
    d.physical_start..(d.physical_start + d.number_of_pages * PageSize - 1)
UsableAddrs == UNION {DescriptorAddrs(Fw.map[i]) : i \in Usable}

\* C29: when the firmware's get_memory_map and exit_boot_services both
\* report success, efi::get_memory_map returns Ok with a RangeSet that
\* covers exactly the addresses of the descriptors of type boot-service
\* code (3), boot-service data (4), conventional memory (7) or persistent
\* memory (14) with a nonzero page count; when either call reports a
\* failure it returns an error.
C29_MemoryMap ==
    FnReturned("get_memory_map") =>
        /\ BothSucceed => /\ fn_ret.kind = "Ok"
                          /\ Covered(fn_ret.val) = UsableAddrs
        /\ EitherFails => fn_ret.kind # "Ok"

\* What the code does instead: it returns Ok exactly when the firmware's
\* get_memory_map reports success, every descriptor is read within the
\* bounds the code tests and fits the word, and exit_boot_services reports
\* a failure; the RangeSet it then returns covers exactly the usable
\* descriptors.
MemoryMapAsCoded ==
    FnReturned("get_memory_map") =>
        /\ BothSucceed => fn_ret.kind # "Ok"
        /\ fn_ret.kind = "Ok" =>
               /\ Fw.registered
               /\ Fw.map_status = "Success"
               /\ Fw.exit_status # "Success"
               /\ Covered(fn_ret.val) = UsableAddrs
        /\ (Fw.registered /\ Fw.map_status # "Success")
               => fn_ret.kind = "MemoryMap"

(***************************************************************************)
(* allocate and the number of entries.                                     *)
(***************************************************************************)
\* The addresses of entry i of the set before the call from its start to
\* the end of the block returned: the front padding and the block.
PrefixTaken(i) == pre_ranges[i].start..(ret.val + arg.size - 1)

\* C30: allocate(size, align) takes the block, with the padding in front of
\* it, from the start of a free entry, so that no entry is split: it never
\* returns OutOfEntries and never leaves more entries in use than there
\* were, also when every slot is in use.
C30_AllocateNeverSplits ==
    Returned("allocate") =>
        /\ ret.kind # "OutOfEntries"
        /\ in_use <= pre_in_use
        /\ ret.kind = "Ok" =>
               \E i \in PreInUse :
                   /\ CarvedFrom(i)
                   /\ PrefixTaken(i) \cap Covered(Self) = {}

\* The same on the sets whose entries share no address.
AllocateOnDisjointSet == Disjoint(Pre) => C30_AllocateNeverSplits

====
